---- MODULE Spec2Model ----
(***************************************************************************)
(* Multi-provider LLM router of opspilot/utils/llm_providers.py:           *)
(* CircuitBreaker, ProviderStats, LLMProvider.call_with_retry,             *)
(* LLMProvider.parse_json, LLMRouter.call and LLMRouter.safe_json_parse.   *)
(*                                                                         *)
(* Time is in whole seconds.  A provider's call() is the only suspension   *)
(* point: its outcome and (for a timeout) its duration are inputs.         *)
(***************************************************************************)
EXTENDS Integers, Sequences, FiniteSets, TLC

(* ------------------------------------------------------------------ *)
(* Program constants (opspilot/constants.py)                           *)
(* ------------------------------------------------------------------ *)
LLM_TIMEOUT == 60
LLM_MAX_RETRIES == 3
LLM_RETRY_DELAY == 1
LLM_RETRY_MULTIPLIER == 2
CIRCUIT_BREAKER_THRESHOLD == 5
CIRCUIT_BREAKER_TIMEOUT == 60
\* graph/engine.py: CONFIDENCE_THRESHOLD = 0.6, in tenths
CONFIDENCE_THRESHOLD == 6
\* state.py: AgentState.max_iterations = 2
DEFAULT_MAX_ITERATIONS == 2
\* default of safe_json_parse's retry_timeout parameter
RETRY_TIMEOUT == 15

(* ------------------------------------------------------------------ *)
(* Bounds of the model                                                 *)
(* ------------------------------------------------------------------ *)
\* the clock is advanced between operations only while now < MaxTime
MaxTime == 130
\* the standalone breaker takes record_failure() only below this count
MaxFailureCount == 7
\* provider call() failures the environment injects over a whole run
MaxFailures == 5
\* the same when no HTTP provider has a credential, so that only the local
\* provider is ever invoked
MaxLocalFailures == 6
\* Router.call / safe_json_parse are started only below this many successes
MaxSuccesses == 2
\* parse_json is applied to every text of at most this many tokens
MaxLen == 5
\* get_llm_router builds at most this many LLMRouter objects
MaxRouters == 2
\* concurrent callers see at most this many call() invocations raise
MaxRaised == 2
\* run_agent is called with max_iterations from 1 up to this
MaxIterations == 3
\* the rounds of run_agent's loop are counted up to this
MaxRounds == 5
\* the amounts by which the clock advances between operations
TickSteps == {30, 31}

\* Optional[...] = None: a time that is not set, a provider that is not set
NoTime == -1
None == "None"
\* _global_router is None; the LLMRouter objects built are numbered from 1
NoRouter == 0

(* ------------------------------------------------------------------ *)
(* CircuitBreaker                                                      *)
(* ------------------------------------------------------------------ *)
\* the dataclass defaults: a newly constructed breaker
CircuitBreaker ==
    [failure_count |-> 0, last_failure_time |-> NoTime, is_open |-> FALSE]

\* mutant: opens only above the threshold
record_failure_gt(b, t) ==
    [failure_count |-> b.failure_count + 1,
     last_failure_time |-> t,
     is_open |-> IF b.failure_count + 1 > CIRCUIT_BREAKER_THRESHOLD
                 THEN TRUE ELSE b.is_open]

\* mutant: the time of the failure is not kept
record_failure_untimed(b, t) ==
    [failure_count |-> b.failure_count + 1,
     last_failure_time |-> b.last_failure_time,
     is_open |-> IF b.failure_count + 1 >= CIRCUIT_BREAKER_THRESHOLD
                 THEN TRUE ELSE b.is_open]

\* record_failure() at time t
record_failure(b, t) ==
    [failure_count |-> b.failure_count + 1,
     last_failure_time |-> t,
     is_open |-> IF b.failure_count + 1 >= CIRCUIT_BREAKER_THRESHOLD
                 THEN TRUE ELSE b.is_open]

\* mutant: success decrements the count and keeps the rest
record_success_decay(b) ==
    [b EXCEPT !.failure_count = IF @ > 0 THEN @ - 1 ELSE 0]

\* record_success()
record_success(b) ==
    [failure_count |-> 0, is_open |-> FALSE, last_failure_time |-> NoTime]

\* mutant: a closed breaker with recorded failures also waits for the cooldown
can_attempt_strict(b, t) ==
    IF ~b.is_open /\ b.failure_count = 0 THEN TRUE
    ELSE IF b.last_failure_time # NoTime
            /\ t - b.last_failure_time > CIRCUIT_BREAKER_TIMEOUT THEN TRUE
    ELSE FALSE

\* mutant: the cooldown is over as soon as the timeout is reached
can_attempt_ge(b, t) ==
    IF ~b.is_open THEN TRUE
    ELSE IF b.last_failure_time # NoTime
            /\ t - b.last_failure_time >= CIRCUIT_BREAKER_TIMEOUT THEN TRUE
    ELSE FALSE

\* mutant: an open breaker refuses until a success or a reset closes it
can_attempt_closed_only(b, t) == ~b.is_open

\* can_attempt() at time t
can_attempt(b, t) ==
    IF ~b.is_open THEN TRUE
    ELSE IF b.last_failure_time # NoTime
            /\ t - b.last_failure_time > CIRCUIT_BREAKER_TIMEOUT THEN TRUE
    ELSE FALSE

\* mutant: reset() clears the count only
reset_count_only(b) == [b EXCEPT !.failure_count = 0]

\* reset()
reset(b) ==
    [failure_count |-> 0, is_open |-> FALSE, last_failure_time |-> NoTime]

(* ------------------------------------------------------------------ *)
(* Text.  A text is a sequence of tokens: "{" and "}" are the braces,  *)
(* "fence" a code fence (three backquotes), "json" the fence's tag,    *)
(* "v" a JSON scalar or member, "x" any other prose, " " white space.  *)
(* Offsets are 0-based as in Python; -1 is find()'s "not found".       *)
(* ------------------------------------------------------------------ *)
Tokens == {"{", "}", "fence", "json", "v", "x", " "}

\* s[a:b] for 0 <= a, b <= len(s)
Slice(s, a, b) == SubSeq(s, a + 1, b)

\* pat occurs in s at offset i
OccursAt(s, pat, i) ==
    /\ i >= 0
    /\ i + Len(pat) <= Len(s)
    /\ \A k \in 1..Len(pat) : s[i + k] = pat[k]

\* s.find(pat, from)
Find(s, pat, from) ==
    LET hits == {i \in from..Len(s) : OccursAt(s, pat, i)}
    IN  IF hits = {} THEN -1
        ELSE CHOOSE i \in hits : \A j \in hits : i <= j

\* s.rfind(pat)
RFind(s, pat) ==
    LET hits == {i \in 0..Len(s) : OccursAt(s, pat, i)}
    IN  IF hits = {} THEN -1
        ELSE CHOOSE i \in hits : \A j \in hits : i >= j

\* pat in s
Contains(s, pat) == Find(s, pat, 0) # -1

\* s.strip()
RECURSIVE Strip(_)
Strip(s) ==
    IF s = <<>> THEN s
    ELSE IF Head(s) = " " THEN Strip(Tail(s))
    ELSE IF s[Len(s)] = " " THEN Strip(SubSeq(s, 1, Len(s) - 1))
    ELSE s

\* s without the white space json.loads ignores between tokens
RECURSIVE NoSpace(_)
NoSpace(s) ==
    IF s = <<>> THEN s
    ELSE IF Head(s) = " " THEN NoSpace(Tail(s))
    ELSE <<Head(s)>> \o NoSpace(Tail(s))

\* the JSON grammar on tokens: a scalar, {} or {member: value}
RECURSIVE IsJsonValue(_)
IsJsonValue(s) ==
    \/ s = <<"v">>
    \/ s = <<"{", "}">>
    \/ /\ Len(s) >= 3
       /\ s[1] = "{"
       /\ s[Len(s)] = "}"
       /\ IsJsonValue(SubSeq(s, 2, Len(s) - 1))

\* json.loads(s): the parsed value, or JSONDecodeError (ok = FALSE)
JsonLoads(s) ==
    IF IsJsonValue(NoSpace(s))
    THEN [ok |-> TRUE, value |-> NoSpace(s)]
    ELSE [ok |-> FALSE, value |-> <<>>]

\* lines 195-208 of parse_json: the text the second strategy parses
FencedContent(raw) ==
    IF Contains(raw, <<"fence", "json">>)
    THEN LET start == Find(raw, <<"fence", "json">>, 0) + 2
             end == Find(raw, <<"fence">>, start)
         IN  IF end > start THEN Strip(Slice(raw, start, end)) ELSE raw
    ELSE IF Contains(raw, <<"fence">>)
    THEN LET start == Find(raw, <<"fence">>, 0) + 1
             end == Find(raw, <<"fence">>, start)
         IN  IF end > start THEN Strip(Slice(raw, start, end)) ELSE raw
    ELSE raw

\* lines 217-221 of parse_json: the text the third strategy parses, if any
BraceSlice(raw) ==
    LET start_idx == Find(raw, <<"{">>, 0)
        end_idx == RFind(raw, <<"}">>)
    IN  IF start_idx # -1 /\ end_idx # -1 /\ start_idx < end_idx
        THEN [some |-> TRUE, text |-> Slice(raw, start_idx, end_idx + 1)]
        ELSE [some |-> FALSE, text |-> <<>>]

\* mutant: the brace slice is tried before the fenced content
parse_json_braces_first(raw) ==
    LET direct == JsonLoads(raw)
        content == JsonLoads(FencedContent(raw))
        braces == BraceSlice(raw)
        sliced == JsonLoads(braces.text)
    IN  IF direct.ok
        THEN [ok |-> TRUE, value |-> direct.value, via |-> "direct"]
        ELSE IF braces.some /\ sliced.ok
        THEN [ok |-> TRUE, value |-> sliced.value, via |-> "braces"]
        ELSE IF content.ok
        THEN [ok |-> TRUE, value |-> content.value, via |-> "content"]
        ELSE [ok |-> FALSE, value |-> <<>>, via |-> "none"]

\* parse_json(raw): ok = FALSE is LLMParseError; via names the strategy
parse_json(raw) ==
    LET direct == JsonLoads(raw)
        content == JsonLoads(FencedContent(raw))
        braces == BraceSlice(raw)
        sliced == JsonLoads(braces.text)
    IN  IF direct.ok
        THEN [ok |-> TRUE, value |-> direct.value, via |-> "direct"]
        ELSE IF content.ok
        THEN [ok |-> TRUE, value |-> content.value, via |-> "content"]
        ELSE IF braces.some /\ sliced.ok
        THEN [ok |-> TRUE, value |-> sliced.value, via |-> "braces"]
        ELSE [ok |-> FALSE, value |-> <<>>, via |-> "none"]

\* the texts a caller hands to safe_json_parse and a provider answers with:
\* JSON alone, JSON in a tagged fence amid prose, JSON amid prose, no JSON
Texts ==
    { <<"{", "v", "}">>,
      <<"x", "fence", "json", " ", "{", "v", "}", " ", "fence", "x">>,
      <<"x", " ", "{", "v", "}", " ", "x">>,
      <<"fence", "json", "{", "x", "fence">> }

\* parse_json on each of these texts
ParseOf == [t \in Texts |-> parse_json(t)]

(* ------------------------------------------------------------------ *)
(* Providers and exceptions                                            *)
(* ------------------------------------------------------------------ *)
Ollama == "OllamaProvider"
Gemini == "GeminiProvider"
OpenRouter == "OpenRouterProvider"
HuggingFace == "HuggingFaceProvider"

HttpProviders == {Gemini, OpenRouter, HuggingFace}
Providers == {Ollama} \cup HttpProviders

\* what the local binary looks like to _resolve_ollama_path and "ollama list"
OllamaEnvs == {"ok", "no_binary", "list_fails"}

VARIABLES
    prefer_local,              \* LLMRouter.prefer_local
    api_key,                   \* per HTTP provider: the credential is set and non-empty
    ollama_env,                \* the state of the local Ollama installation
    stats,                     \* per provider: ProviderStats
    last_successful_provider,  \* the sticky provider, or None
    now,                       \* the clock
    op,                        \* the caller's operation: "none", "call", "safe_json_parse"
    pc,                        \* where that operation stands
    raw,                       \* safe_json_parse's raw argument
    timeout,                   \* Router.call's timeout argument
    errors,                    \* Router.call's errors list
    idx,                       \* position of Router.call's for loop (1-based)
    phase,                     \* "sticky" (lines 583-590) or "loop" (lines 593-616)
    cur,                       \* the provider whose call_with_retry is running
    attempt,                   \* call_with_retry's attempt
    delay,                     \* call_with_retry's delay
    last_error,                \* call_with_retry's last_error (kept when it raises)
    seq_stats,                 \* history: cur's stats when its call_with_retry began
    result,                    \* what Router.call returned or raised
    parsed,                    \* what safe_json_parse returned or raised
    log,                       \* history of the current Router.call
    ncorr,                     \* history: Router.call invocations made by safe_json_parse
    cb,                        \* a standalone CircuitBreaker
    cb_op,                     \* history: the last method called on cb
    cb_prev,                   \* history: cb before that call
    cb_streak,                 \* history: record_failure() calls since construction/success/reset
    cb_last_fail,              \* history: time of the last record_failure() call on cb
    synchronized,              \* the concurrent callers hold one mutex around Router.call
    mutex,                     \* that mutex: 0, or the caller holding it
    completed,                 \* history, per provider: call() invocations that returned or raised
    raises,                    \* history: call() invocations of concurrent callers that raised
    t_pc,                      \* per concurrent caller: where its Router.call stands
    t_phase,                   \* per concurrent caller: "sticky" or "loop"
    t_idx,                     \* per concurrent caller: position of the for loop
    t_cur,                     \* per concurrent caller: provider of its call_with_retry
    t_attempt,                 \* per concurrent caller: call_with_retry's attempt
    t_delay,                   \* per concurrent caller: call_with_retry's delay
    t_tmp,                     \* per concurrent caller: the value it has loaded
    t_exc,                     \* per concurrent caller: what its last call() raised
    t_errors,                  \* per concurrent caller: Router.call's errors list
    t_result,                  \* per concurrent caller: how its Router.call ended
    _global_router,            \* the module's _global_router: None, or which LLMRouter
    routers_built,             \* history: LLMRouter objects get_llm_router has built
    got,                       \* get_llm_router's argument and what it returned
    diag,                      \* what get_available_providers / get_provider_stats returned
    skipped,                   \* history: <<provider, reason>> of the loop's skips in earlier Router.calls
    limited,                   \* history, per provider: Router.calls that found it rate-limited since its last success
    state,                     \* run_agent's AgentState
    a_pc,                      \* where run_agent stands
    rounds,                    \* history: rounds of run_agent's loop that have ended
    fixed                      \* history: times fixer_node ran

envVars == <<prefer_local, api_key, ollama_env>>
routerVars == <<stats, last_successful_provider>>
frameVars ==
    <<timeout, errors, idx, phase, cur, attempt, delay, last_error, seq_stats,
      log>>
cbVars == <<cb, cb_op, cb_prev, cb_streak, cb_last_fail>>
liveVars == <<skipped, limited>>
diagVars == <<diag>>
globalVars == <<_global_router, routers_built, got>>
threadVars ==
    <<synchronized, mutex, completed, raises, t_pc, t_phase, t_idx, t_cur,
      t_attempt, t_delay, t_tmp, t_exc, t_errors, t_result>>
\* what the operations of the Router leave alone
agentVars == <<state, a_pc, rounds, fixed>>
sideVars == <<cbVars, liveVars, diagVars, globalVars, threadVars, agentVars>>
vars == <<envVars, routerVars, now, op, pc, raw, frameVars, result, parsed,
          ncorr, sideVars>>

\* _initialize_providers: the ordered provider list
providers ==
    IF prefer_local
    THEN <<Ollama, Gemini, OpenRouter, HuggingFace>>
    ELSE <<Gemini, OpenRouter, HuggingFace, Ollama>>

\* ProviderStats() as constructed (the latency sum is not modelled)
ProviderStats ==
    [total_calls |-> 0, successful_calls |-> 0, failed_calls |-> 0,
     circuit_breaker |-> CircuitBreaker]

\* is_available() of each provider class
is_available(p) ==
    IF p = Ollama THEN ollama_env = "ok" ELSE api_key[p]

\* An exception of a provider's call() is its class and the marker of the
\* variable part of its message: "other", or text holding "Rate Limit" or
\* "429".
NoError == [cls |-> "None", msg |-> "None"]
Exc(c, m) == [cls |-> c, msg |-> m]
MsgTexts == {"other", "Rate Limit", "429"}

\* the class hierarchy of opspilot/exceptions.py below Exception
LLMErrorClasses ==
    {"LLMError", "LLMTimeoutError", "LLMResponseError", "LLMRateLimitError",
     "LLMParseError"}
IsInstance(c, base) ==
    \/ c = base
    \/ base = "LLMError" /\ c \in LLMErrorClasses
    \/ base = "Exception" /\ c \in LLMErrorClasses \cup {"KeyError"}

\* str.lower() on the message markers
Lower(w) == IF w = "Rate Limit" THEN "rate limit" ELSE w

\* the markers str(e) holds: LLMRateLimitError's own message is
\* "Rate limited by <provider>", the other classes carry their detail
Str(e) ==
    IF e.cls = "LLMRateLimitError" THEN {"Rate Limit"} ELSE {"other", e.msg}

\* line 172: "rate limit" in str(e).lower() or "429" in str(e)
IsRateLimit(e) ==
    \/ "rate limit" \in {Lower(w) : w \in Str(e)}
    \/ "429" \in Str(e)

\* the exceptions a provider's call(prompt) can raise
CallErrors(p) ==
    IF p = Ollama
    THEN IF ollama_env = "no_binary"
         THEN {Exc("LLMError", "other")}                  \* "Ollama not found"
         ELSE {Exc("LLMTimeoutError", "other")}
              \cup {Exc("LLMResponseError", m) : m \in MsgTexts}
    ELSE IF ~api_key[p]
         THEN {Exc("LLMError", "other")}                  \* "API key not set"
         ELSE {Exc("LLMTimeoutError", "other"),
               Exc("LLMRateLimitError", "other"),         \* HTTP 429
               Exc("KeyError", "other")}                  \* malformed envelope
              \cup {Exc("LLMResponseError", m) : m \in MsgTexts}
              \cup {Exc("LLMError", m) : m \in MsgTexts}  \* RequestException

\* whether call(prompt) can return text
CanSucceed(p) ==
    IF p = Ollama THEN ollama_env # "no_binary" ELSE api_key[p]

\* seconds a call that ends in e takes: a timeout takes the whole timeout
Duration(e) == IF e.cls = "LLMTimeoutError" THEN timeout ELSE 0

\* The clock is read only by can_attempt of an open breaker (lines 69-71),
\* and every record_failure overwrites last_failure_time.  While no breaker
\* is open an advance of the clock shifts all later times alike, so the
\* clock is advanced by d only while some breaker is open.
SomeOpen(st) ==
    \/ cb.is_open
    \/ \E p \in Providers : st[p].circuit_breaker.is_open
SomeBreakerOpen == SomeOpen(stats)
Elapse(d, st) == IF SomeOpen(st) THEN d ELSE 0

\* Sum of f over the set S
RECURSIVE SumOver(_, _)
SumOver(f, S) ==
    IF S = {} THEN 0
    ELSE LET x == CHOOSE y \in S : TRUE IN f[x] + SumOver(f, S \ {x})

\* the failures the environment may inject in this run
FailureBudget ==
    IF \A p \in HttpProviders : ~api_key[p] THEN MaxLocalFailures
    ELSE MaxFailures

TotalFailed == SumOver([p \in Providers |-> stats[p].failed_calls], Providers)
TotalSucceeded ==
    SumOver([p \in Providers |-> stats[p].successful_calls], Providers)

\* what an operation returned (kind "text", "json") or raised (kind is the
\* exception's class, what the head of its message)
Outcome(k, w, t, p, errs) ==
    [kind |-> k, what |-> w, text |-> t, from |-> p, errors |-> errs]
NoResult == Outcome("none", "", <<>>, None, <<>>)

\* the concurrent callers of Router.call
Threads == {1, 2}

\* no concurrent caller has begun
NoCallers ==
    /\ mutex = 0
    /\ raises = 0
    /\ t_pc = [t \in Threads |-> "idle"]
    /\ t_phase = [t \in Threads |-> "none"]
    /\ t_idx = [t \in Threads |-> 1]
    /\ t_cur = [t \in Threads |-> None]
    /\ t_attempt = [t \in Threads |-> 0]
    /\ t_delay = [t \in Threads |-> LLM_RETRY_DELAY]
    /\ t_tmp = [t \in Threads |-> 0]
    /\ t_exc = [t \in Threads |-> NoError]
    /\ t_errors = [t \in Threads |-> <<>>]
    /\ t_result = [t \in Threads |-> "none"]

\* get_llm_router has returned nothing
NotGot == [instance |-> NoRouter, prefer_local |-> TRUE]

\* no diagnostic has been asked for
NoDiag == [names |-> <<>>, report |-> <<>>]

\* state.py: AgentState as constructed, with max_iterations k; confidence
\* is in tenths (context, evidence and suggestions are not modelled)
AgentState(k) ==
    [hypothesis |-> None, confidence |-> 0, iteration |-> 0,
     max_iterations |-> k, terminated |-> FALSE]

\* no run_agent has been called
NoAgent ==
    /\ state = AgentState(DEFAULT_MAX_ITERATIONS)
    /\ a_pc = "none"
    /\ rounds = 0
    /\ fixed = 0

Init ==
    /\ prefer_local \in BOOLEAN
    /\ api_key \in [HttpProviders -> BOOLEAN]
    /\ ollama_env \in OllamaEnvs
    /\ stats = [p \in Providers |-> ProviderStats]
    /\ last_successful_provider = None
    /\ now = 0
    /\ op = "none"
    /\ pc = "idle"
    /\ raw = <<>>
    /\ timeout = LLM_TIMEOUT
    /\ errors = <<>>
    /\ idx = 1
    /\ phase = "none"
    /\ cur = None
    /\ attempt = 0
    /\ delay = LLM_RETRY_DELAY
    /\ last_error = NoError
    /\ seq_stats = ProviderStats
    /\ result = NoResult
    /\ parsed = NoResult
    /\ log = <<>>
    /\ ncorr = 0
    /\ cb = CircuitBreaker
    /\ cb_op = "init"
    /\ cb_prev = CircuitBreaker
    /\ cb_streak = 0
    /\ cb_last_fail = NoTime
    /\ skipped = {}
    /\ limited = [p \in Providers |-> 0]
    /\ diag = NoDiag
    /\ _global_router = NoRouter
    /\ routers_built = 0
    /\ got = NotGot
    /\ synchronized = FALSE
    /\ completed = [p \in Providers |-> 0]
    /\ NoCallers
    /\ NoAgent

(* ------------------------------------------------------------------ *)
(* call_with_retry and Router.call                                     *)
(* ------------------------------------------------------------------ *)
\* An entry of the history of one Router.call.  "begin": the call starts,
\* with the sticky provider, its breaker's open flag and the seconds since
\* its last failure; "seq": call_with_retry passed its gate; "call":
\* call() invoked (n = attempt); "sleep": time.sleep (n = seconds).
Event(ev, p, ph, n) == [ev |-> ev, provider |-> p, phase |-> ph, n |-> n]

BeginEvent ==
    LET p == last_successful_provider
    IN  IF p = None THEN Event("begin", None, "none", 0)
        ELSE LET b == stats[p].circuit_breaker
             IN  Event("begin", p,
                       IF b.is_open THEN "open" ELSE "closed",
                       IF b.last_failure_time = NoTime THEN 0
                       ELSE now - b.last_failure_time)

\* an entry of Router.call's errors list: "<provider>: <reason>"
Entry(p, reason, cause) == [provider |-> p, reason |-> reason, cause |-> cause]

\* the exceptions call_with_retry raises (lines 143, 173, 181)
RetryExc(c, what, cause) == [cls |-> c, what |-> what, cause |-> cause]
BreakerOpenError == RetryExc("LLMError", "circuit breaker is open", NoError)
RateLimitError == RetryExc("LLMRateLimitError", "Rate limited by", NoError)
ExhaustedError(e) == RetryExc("LLMError", "failed after 4 attempts", e)

\* lines 590, 612, 615: the entry Router.call appends for exception e
CaughtEntry(p, ph, e) ==
    IF ph = "loop" /\ IsInstance(e.cls, "LLMRateLimitError")
    THEN Entry(p, "Rate limited", NoError)
    ELSE Entry(p, e.what, e.cause)

\* mutant: the loop handles the rate limit only
RouterCatchesRateLimitOnly(ph, e) ==
    IF ph = "sticky" THEN IsInstance(e.cls, "Exception")
    ELSE IsInstance(e.cls, "LLMRateLimitError")

\* lines 589, 611, 614: the except clauses around call_with_retry
RouterCatches(ph, e) ==
    IF ph = "sticky" THEN IsInstance(e.cls, "Exception")
    ELSE IsInstance(e.cls, "LLMRateLimitError") \/ IsInstance(e.cls, "Exception")

\* mutant: after a failure the loop stays at the provider that failed
NextIndexSame(ph, i) == IF ph = "sticky" THEN 1 ELSE i

\* mutant: after the sticky provider's failure the loop starts behind the
\* first provider
NextIndexSkip(ph, i) == i + 1

\* lines 590-593, 613, 616: where the for loop goes on after an exception
NextIndex(ph, i) == IF ph = "sticky" THEN 1 ELSE i + 1

\* p's call_with_retry raised e: Router.call catches it and goes on, to the
\* for loop after the sticky attempt, to the next provider inside the loop;
\* an exception no clause catches leaves Router.call.  le is last_error as
\* call_with_retry's frame held it when it raised
Caught(p, ph, e, errs, i, lg, le) ==
    IF RouterCatches(ph, e)
    THEN /\ errors' = Append(errs, CaughtEntry(p, ph, e))
         /\ idx' = NextIndex(ph, i)
         /\ pc' = "loop"
         /\ phase' = "loop"
         /\ cur' = None
         /\ attempt' = 0
         /\ delay' = LLM_RETRY_DELAY
         /\ last_error' = le
         /\ seq_stats' = seq_stats
         /\ log' = lg
         /\ result' = NoResult
    ELSE /\ result' = Outcome(e.cls, e.what, <<>>, p, errs)
         /\ pc' = "done"
         /\ last_error' = le
         /\ log' = lg
         /\ UNCHANGED <<errors, idx, phase, cur, attempt, delay, seq_stats>>

\* lines 141-149: Router.call enters p.call_with_retry
EnterRetry(p, ph, errs, i, lg) ==
    IF ~can_attempt(stats[p].circuit_breaker, now)
    THEN Caught(p, ph, BreakerOpenError, errs, i, lg, NoError)
    ELSE /\ pc' = "attempt"
         /\ phase' = ph
         /\ cur' = p
         /\ attempt' = 0
         /\ delay' = LLM_RETRY_DELAY
         /\ last_error' = NoError
         /\ seq_stats' = stats[p]
         /\ errors' = errs
         /\ idx' = i
         /\ log' = Append(lg, Event("seq", p, ph, 0))
         /\ result' = NoResult

\* lines 583-584: the sticky provider is set and its breaker permits
StickyEligible ==
    /\ last_successful_provider # None
    /\ can_attempt(stats[last_successful_provider].circuit_breaker, now)

\* lines 580-591: Router.call(prompt, t) up to its first suspension
BeginCall(t) ==
    /\ timeout' = t
    /\ IF StickyEligible
       THEN EnterRetry(last_successful_provider, "sticky", <<>>, 1,
                       <<BeginEvent>>)
       ELSE /\ pc' = "loop"
            /\ phase' = "loop"
            /\ cur' = None
            /\ attempt' = 0
            /\ delay' = LLM_RETRY_DELAY
            /\ last_error' = NoError
            /\ seq_stats' = seq_stats
            /\ errors' = <<>>
            /\ idx' = 1
            /\ log' = <<BeginEvent>>
            /\ result' = NoResult

\* a caller invokes Router.call(prompt) with the default timeout
RouterCall ==
    /\ pc = "idle"
    /\ TotalSucceeded < MaxSuccesses
    /\ op' = "call"
    /\ BeginCall(LLM_TIMEOUT)
    /\ UNCHANGED <<envVars, routerVars, now, raw, parsed, ncorr, sideVars>>

\* mutant: the loop looks at the breaker only
SkipReasonBreakerOnly(p) ==
    IF ~can_attempt(stats[p].circuit_breaker, now)
    THEN "Circuit breaker open"
    ELSE "none"

\* lines 594-600: why the loop skips provider p, "none" if it does not
SkipReason(p) ==
    IF ~is_available(p) THEN "Not available"
    ELSE IF ~can_attempt(stats[p].circuit_breaker, now)
    THEN "Circuit breaker open"
    ELSE "none"

\* lines 618-628: the aggregated error
AllFailed(errs) ==
    Outcome("LLMError", "All LLM providers failed", <<>>, None, errs)

\* lines 593-600, 618-628: one round of the for loop, or its end
LoopStep ==
    /\ pc = "loop"
    /\ IF idx > Len(providers)
       THEN /\ result' = AllFailed(errors)
            /\ pc' = "done"
            /\ UNCHANGED frameVars
       ELSE LET p == providers[idx]
            IN  IF SkipReason(p) # "none"
                THEN /\ errors' = Append(errors, Entry(p, SkipReason(p), NoError))
                     /\ idx' = idx + 1
                     /\ UNCHANGED <<pc, timeout, phase, cur, attempt, delay,
                                    last_error, seq_stats, log, result>>
                ELSE /\ EnterRetry(p, "loop", errors, idx, log)
                     /\ UNCHANGED timeout
    /\ UNCHANGED <<envVars, routerVars, now, op, raw, parsed, ncorr, sideVars>>

\* mutant: the sticky pointer is set to a provider class outside the list
NextStickyOutside(p, ph) == "AnthropicProvider"

\* mutant: a success of the sticky provider's step-1 sequence clears the
\* sticky pointer
NextStickyCleared(p, ph) == IF ph = "loop" THEN p ELSE None

\* mutant: a success makes the first provider of the list the sticky one
NextStickyFirst(p, ph) == providers[1]

\* mutant: a success in the loop of a call that began with a sticky
\* provider clears the sticky pointer
NextStickyForgets(p, ph) ==
    IF ph = "loop"
    THEN IF last_successful_provider = None THEN p ELSE None
    ELSE last_successful_provider

\* mutant: a success in the loop leaves the sticky pointer alone
NextStickyNever(p, ph) == last_successful_provider

\* lines 588, 607: the sticky pointer after provider p succeeded
NextSticky(p, ph) ==
    IF ph = "loop" THEN p ELSE last_successful_provider

\* mutant: a call() that returns text is counted as a success only
AttemptSuccessUncounted ==
    /\ pc = "attempt"
    /\ CanSucceed(cur)
    /\ \E text \in Texts : result' = Outcome("text", "", text, cur, <<>>)
    /\ stats' = [stats EXCEPT
                   ![cur].successful_calls = @ + 1,
                   ![cur].circuit_breaker = record_success(@)]
    /\ last_successful_provider' = NextSticky(cur, phase)
    /\ pc' = "done"
    /\ log' = Append(log, Event("call", cur, phase, attempt))
    /\ UNCHANGED <<envVars, now, op, raw, timeout, errors, idx, phase, cur,
                   attempt, delay, last_error, seq_stats, parsed, ncorr,
                   sideVars>>

\* lines 152-163 and 588 / 607-609: call() returns text
AttemptSuccess ==
    /\ pc = "attempt"
    /\ CanSucceed(cur)
    /\ \E text \in Texts : result' = Outcome("text", "", text, cur, <<>>)
    /\ stats' = [stats EXCEPT
                   ![cur].total_calls = @ + 1,
                   ![cur].successful_calls = @ + 1,
                   ![cur].circuit_breaker = record_success(@)]
    /\ last_successful_provider' = NextSticky(cur, phase)
    /\ pc' = "done"
    /\ log' = Append(log, Event("call", cur, phase, attempt))
    /\ UNCHANGED <<envVars, now, op, raw, timeout, errors, idx, phase, cur,
                   attempt, delay, last_error, seq_stats, parsed, ncorr,
                   sideVars>>

\* mutant: a rate limit is retried like any other error
EndsSequenceNever(e, n) == n >= LLM_MAX_RETRIES

\* mutant: the sequence also ends with the failure that opens the breaker
EndsSequenceWhenOpen(e, n) ==
    \/ IsRateLimit(e)
    \/ n >= LLM_MAX_RETRIES
    \/ stats[cur].circuit_breaker.failure_count + 1 >= CIRCUIT_BREAKER_THRESHOLD

\* mutant: twice the attempts
EndsSequenceDoubled(e, n) ==
    IsRateLimit(e) \/ n >= 2 * LLM_MAX_RETRIES + 1

\* mutant: one more attempt than max_retries + 1
EndsSequenceOneMore(e, n) == IsRateLimit(e) \/ n >= LLM_MAX_RETRIES + 1

\* lines 172-176: the failed attempt n ends the sequence
EndsSequence(e, n) == IsRateLimit(e) \/ n >= LLM_MAX_RETRIES

\* mutant: the delay grows by the initial delay
NextDelayLinear(d) == d + LLM_RETRY_DELAY

\* line 178: delay *= LLM_RETRY_MULTIPLIER
NextDelay(d) == d * LLM_RETRY_MULTIPLIER

\* mutant: the rate limit is recognised before the attempt is counted
AttemptFailureClassifiesFirst ==
    /\ pc = "attempt"
    /\ TotalFailed < FailureBudget
    /\ \E e \in CallErrors(cur) :
         LET t1 == now + Elapse(Duration(e), stats)
             lg == Append(log, Event("call", cur, phase, attempt))
             st == IF IsRateLimit(e) THEN stats
                   ELSE [stats EXCEPT
                           ![cur].total_calls = @ + 1,
                           ![cur].failed_calls = @ + 1,
                           ![cur].circuit_breaker = record_failure(@, t1)]
         IN  /\ stats' = st
             /\ IF EndsSequence(e, attempt)
                THEN /\ now' = t1
                     /\ Caught(cur, phase,
                               IF IsRateLimit(e) THEN RateLimitError
                               ELSE ExhaustedError(e),
                               errors, idx, lg, e)
                ELSE /\ now' = t1 + Elapse(delay, st)
                     /\ delay' = NextDelay(delay)
                     /\ attempt' = attempt + 1
                     /\ last_error' = e
                     /\ log' = Append(lg, Event("sleep", cur, phase, delay))
                     /\ UNCHANGED <<pc, phase, cur, errors, idx, result,
                                    seq_stats>>
    /\ UNCHANGED <<envVars, last_successful_provider, op, raw, timeout,
                   parsed, ncorr, sideVars>>

\* lines 165-184 and 589-590 / 611-616: call() raises
AttemptFails ==
    /\ pc = "attempt"
    /\ \E e \in CallErrors(cur) :
         LET t1 == now + Elapse(Duration(e), stats)
             lg == Append(log, Event("call", cur, phase, attempt))
             st == [stats EXCEPT
                      ![cur].total_calls = @ + 1,
                      ![cur].failed_calls = @ + 1,
                      ![cur].circuit_breaker = record_failure(@, t1)]
         IN  /\ stats' = st
             /\ IF EndsSequence(e, attempt)
                THEN /\ now' = t1
                     /\ Caught(cur, phase,
                               IF IsRateLimit(e) THEN RateLimitError
                               ELSE ExhaustedError(e),
                               errors, idx, lg, e)
                ELSE /\ now' = t1 + Elapse(delay, st)
                     /\ delay' = NextDelay(delay)
                     /\ attempt' = attempt + 1
                     /\ last_error' = e
                     /\ log' = Append(lg, Event("sleep", cur, phase, delay))
                     /\ UNCHANGED <<pc, phase, cur, errors, idx, result,
                                    seq_stats>>
    /\ UNCHANGED <<envVars, last_successful_provider, op, raw, timeout,
                   parsed, ncorr, sideVars>>

\* call() raises, while the run has failures left
AttemptFailure ==
    /\ TotalFailed < FailureBudget
    /\ AttemptFails

(* ------------------------------------------------------------------ *)
(* Router.safe_json_parse                                              *)
(* ------------------------------------------------------------------ *)
\* lines 643-644, 663-664: parse_json returned r.value
Parsed(r) == Outcome("json", "", r.value, None, <<>>)

\* line 665: raise LLMParseError(raw)
ParseError == Outcome("LLMParseError", "", <<>>, None, <<>>)

\* mutant: the correction round-trip is made even when raw parses
NeedsCorrectionAlways(s) == s \in Texts

\* lines 642-646: the local strategies fail on raw
NeedsCorrection(s) == ~ParseOf[s].ok

\* lines 641-661: safe_json_parse(raw) up to its return or first suspension
SafeJsonParse ==
    /\ pc = "idle"
    /\ TotalSucceeded < MaxSuccesses
    /\ op' = "safe_json_parse"
    /\ \E s \in Texts :
         /\ raw' = s
         /\ IF NeedsCorrection(s)
            THEN /\ ncorr' = 1
                 /\ parsed' = NoResult
                 /\ BeginCall(RETRY_TIMEOUT)
            ELSE /\ ncorr' = 0
                 /\ parsed' = Parsed(ParseOf[s])
                 /\ pc' = "sjp_done"
                 /\ UNCHANGED <<frameVars, result>>
    /\ UNCHANGED <<envVars, routerVars, now, sideVars>>

\* mutant: a correction that does not parse is corrected again
AfterCorrectionAgain(r) ==
    IF r.kind = "text" /\ ParseOf[r.text].ok
    THEN Parsed(ParseOf[r.text])
    ELSE NoResult

\* mutant: the correction's answer is not parsed
AfterCorrectionDropped(r) == ParseError

\* lines 661-665: what safe_json_parse makes of the correction call's end r
AfterCorrection(r) ==
    IF r.kind = "text" /\ ParseOf[r.text].ok
    THEN Parsed(ParseOf[r.text])
    ELSE ParseError

\* lines 661-665: the correction call has returned or raised
SafeJsonParseResume ==
    /\ pc = "done"
    /\ op = "safe_json_parse"
    /\ LET r == AfterCorrection(result)
       IN  IF r = NoResult
           THEN /\ ncorr' = ncorr + 1
                /\ parsed' = NoResult
                /\ BeginCall(RETRY_TIMEOUT)
           ELSE /\ parsed' = r
                /\ pc' = "sjp_done"
                /\ UNCHANGED <<frameVars, result, ncorr>>
    /\ UNCHANGED <<envVars, routerVars, now, op, raw, sideVars>>

\* the operation's result goes to the caller; its frame is gone
Returned ==
    /\ \/ pc = "done" /\ op = "call"
       \/ pc = "sjp_done"
    /\ pc' = "idle"
    /\ op' = "none"
    /\ raw' = <<>>
    /\ timeout' = LLM_TIMEOUT
    /\ errors' = <<>>
    /\ idx' = 1
    /\ phase' = "none"
    /\ cur' = None
    /\ attempt' = 0
    /\ delay' = LLM_RETRY_DELAY
    /\ last_error' = NoError
    /\ seq_stats' = ProviderStats
    /\ result' = NoResult
    /\ parsed' = NoResult
    /\ log' = <<>>
    /\ ncorr' = 0
    /\ UNCHANGED <<envVars, routerVars, now, cbVars, diagVars, globalVars,
                   threadVars, agentVars>>

\* the caller has its result
Return == Returned /\ UNCHANGED liveVars

(* ------------------------------------------------------------------ *)
(* The environment                                                     *)
(* ------------------------------------------------------------------ *)
\* time passes between two operations; shown only when it can be observed
Tick ==
    /\ pc = "idle"
    /\ now < MaxTime
    /\ SomeBreakerOpen
    /\ \E d \in TickSteps : now' = now + d
    /\ UNCHANGED <<envVars, routerVars, op, pc, raw, frameVars, result,
                   parsed, ncorr, sideVars>>

\* the local Ollama installation changes between two operations
OllamaChange ==
    /\ pc = "idle"
    /\ \E e \in OllamaEnvs \ {ollama_env} : ollama_env' = e
    /\ UNCHANGED <<prefer_local, api_key, routerVars, now, op, pc, raw,
                   frameVars, result, parsed, ncorr, sideVars>>

Next ==
    \/ RouterCall
    \/ LoopStep
    \/ AttemptSuccess
    \/ AttemptFailure
    \/ Return
    \/ Tick
    \/ OllamaChange

Spec == Init /\ [][Next]_vars

\* callers that hand texts to safe_json_parse
NextRepair ==
    \/ SafeJsonParse
    \/ SafeJsonParseResume
    \/ LoopStep
    \/ AttemptSuccess
    \/ AttemptFailure
    \/ Return
    \/ Tick
    \/ OllamaChange

SpecRepair == Init /\ [][NextRepair]_vars

(* ------------------------------------------------------------------ *)
(* Router.call with the count of rate-limited calls per provider       *)
(* ------------------------------------------------------------------ *)
\* the reports Router.call files for a rate-limited sequence: line 612 in
\* the loop, the exception's own message on the sticky path (line 590)
RateLimitReports == {"Rate limited", "Rate limited by"}

\* the providers the Router.call that ends found rate-limited
RateLimitedIn(errs) ==
    {errs[j].provider :
        j \in {k \in 1..Len(errs) : errs[k].reason \in RateLimitReports}}

\* the caller has its result; a provider that answered starts anew, a
\* provider the call found rate-limited has one more such call on record
ReturnLimited ==
    /\ Returned
    /\ limited' =
         [p \in Providers |->
            IF result.kind = "text" /\ result.from = p THEN 0
            ELSE IF p \in RateLimitedIn(errors) THEN limited[p] + 1
            ELSE limited[p]]
    /\ UNCHANGED skipped

NextLimited ==
    \/ RouterCall
    \/ LoopStep
    \/ AttemptSuccess
    \/ AttemptFailure
    \/ ReturnLimited
    \/ Tick
    \/ OllamaChange

SpecLimited == Init /\ [][NextLimited]_vars

(* ------------------------------------------------------------------ *)
(* Router.call where every provider call() returns or raises           *)
(* ------------------------------------------------------------------ *)
\* the two ways a call() fails for call_with_retry: an error that is
\* retried, here the timeout, and an error classified as a rate limit
TermErrors == {Exc("LLMTimeoutError", "other"), Exc("LLMResponseError", "429")}

\* every provider is usable, so that each can be given its attempts
InitTerm ==
    /\ Init

\* a caller invokes Router.call while no call() of the run has failed; the
\* failures of the Router.call that follows are not limited
RouterCallUnlimited ==
    /\ TotalFailed = 0
    /\ RouterCall

\* call() raises one of these errors, or what alone it can raise (no
\* binary, no credential)
AttemptFailsWith ==
    /\ AttemptFails
    /\ \/ last_error' \in TermErrors
       \/ CallErrors(cur) \cap TermErrors = {}

NextTerm ==
    \/ RouterCallUnlimited
    \/ LoopStep
    \/ AttemptSuccess
    \/ AttemptFailsWith
    \/ Return
    \/ Tick
    \/ OllamaChange

\* call() ends within provider.timeout (it returns, or raises at the
\* latest LLMTimeoutError); time.sleep returns; the loop of Router.call
\* goes on
SpecTerm ==
    /\ InitTerm
    /\ [][NextTerm]_vars
    /\ WF_vars(LoopStep)
    /\ WF_vars(AttemptSuccess \/ AttemptFailsWith)

(* ------------------------------------------------------------------ *)
(* Router.call with the record of what earlier calls skipped           *)
(* ------------------------------------------------------------------ *)
SkipReasons == {"Not available", "Circuit breaker open"}

\* the providers the for loop skipped (lines 595-600), with the reason
SkipsOf(errs) ==
    {<<errs[j].provider, errs[j].reason>> :
        j \in {k \in 1..Len(errs) : errs[k].reason \in SkipReasons}}

\* the caller has its result; the skips of this Router.call are on record
ReturnRecorded ==
    /\ Returned
    /\ skipped' = skipped \cup SkipsOf(errors)
    /\ UNCHANGED limited

NextLive ==
    \/ RouterCall
    \/ LoopStep
    \/ AttemptSuccess
    \/ AttemptFailure
    \/ ReturnRecorded
    \/ Tick
    \/ OllamaChange

SpecLive == Init /\ [][NextLive]_vars

(* ------------------------------------------------------------------ *)
(* The Router's diagnostic surface                                     *)
(* ------------------------------------------------------------------ *)
\* mutant: a permitted attempt on an open breaker closes it
after_can_attempt_closes(b, t) ==
    IF can_attempt(b, t) THEN [b EXCEPT !.is_open = FALSE] ELSE b

\* mutant: a permitted attempt on an open breaker restarts the cooldown, so
\* that one probe only is let through
after_can_attempt_probing(b, t) ==
    IF b.is_open /\ can_attempt(b, t)
    THEN [b EXCEPT !.last_failure_time = t]
    ELSE b

\* mutant: a refusal is recorded like a failure, which restarts the
\* cooldown
after_can_attempt_refusal_counts(b, t) ==
    IF can_attempt(b, t) THEN b ELSE record_failure(b, t)

\* lines 63-75: the breaker after can_attempt(); the method assigns no field
after_can_attempt(b, t) == b

\* mutant: the breaker is not consulted
available_ignoring_breaker(p) == is_available(p)

\* line 548: the filter of get_available_providers
available_and_permitted(p) ==
    is_available(p) /\ can_attempt(stats[p].circuit_breaker, now)

\* lines 546-550: the names get_available_providers returns
get_available_providers == SelectSeq(providers, available_and_permitted)

\* lines 94-97: ProviderStats.success_rate, as a fraction <<num, den>>
success_rate(st) ==
    IF st.total_calls = 0 THEN <<0, 1>>
    ELSE <<st.successful_calls, st.total_calls>>

\* lines 554-564: get_provider_stats, one entry per provider in list order
\* (the latency average is not modelled)
get_provider_stats ==
    [i \in 1..Len(providers) |->
        LET p == providers[i]
        IN  [name |-> p,
             available |-> is_available(p),
             total_calls |-> stats[p].total_calls,
             success_rate |-> success_rate(stats[p]),
             circuit_open |-> stats[p].circuit_breaker.is_open]]

\* lines 544-550: a caller invokes get_available_providers(); can_attempt()
\* is evaluated on the providers whose is_available() is true
GetAvailableProviders ==
    /\ pc = "idle"
    /\ op' = "get_available_providers"
    /\ pc' = "diag_done"
    /\ diag' = [names |-> get_available_providers, report |-> <<>>]
    /\ stats' = [p \in Providers |->
                   IF is_available(p)
                   THEN [stats[p] EXCEPT
                           !.circuit_breaker = after_can_attempt(@, now)]
                   ELSE stats[p]]
    /\ UNCHANGED <<envVars, last_successful_provider, now, raw, frameVars,
                   result, parsed, ncorr, cbVars, agentVars, liveVars, globalVars, threadVars>>

\* lines 552-564: a caller invokes get_provider_stats()
GetProviderStats ==
    /\ pc = "idle"
    /\ op' = "get_provider_stats"
    /\ pc' = "diag_done"
    /\ diag' = [names |-> <<>>, report |-> get_provider_stats]
    /\ UNCHANGED <<envVars, routerVars, now, raw, frameVars, result, parsed,
                   ncorr, cbVars, agentVars, liveVars, globalVars, threadVars>>

\* the caller has the diagnostic
ReturnDiag ==
    /\ pc = "diag_done"
    /\ pc' = "idle"
    /\ op' = "none"
    /\ diag' = NoDiag
    /\ UNCHANGED <<envVars, routerVars, now, raw, frameVars, result, parsed,
                   ncorr, cbVars, agentVars, liveVars, globalVars, threadVars>>

NextDiag ==
    \/ RouterCall
    \/ LoopStep
    \/ AttemptSuccess
    \/ AttemptFailure
    \/ Return
    \/ GetAvailableProviders
    \/ GetProviderStats
    \/ ReturnDiag
    \/ Tick
    \/ OllamaChange

SpecDiag == Init /\ [][NextDiag]_vars

(* ------------------------------------------------------------------ *)
(* The process-wide router: get_llm_router, reset_llm_router,          *)
(* call_llama                                                          *)
(* ------------------------------------------------------------------ *)
\* the credentials found in the environment when a router is built: only
\* GOOGLE_API_KEY may be set
BuildEnvs ==
    {k \in [HttpProviders -> BOOLEAN] :
        \A p \in HttpProviders \ {Gemini} : ~k[p]}

\* no router object is referenced by the module: the router's fields hold
\* nothing
Unbuilt ==
    /\ prefer_local
    /\ \A p \in HttpProviders : ~api_key[p]

\* the process starts without a router, with a working local Ollama
InitGlobal == Init /\ Unbuilt /\ ollama_env = "ok"

\* mutant: a call with another prefer_local replaces the router
BuildsRouterOnChange(g, pl) == g = NoRouter \/ pl # prefer_local

\* line 675: get_llm_router(pl) builds a router
BuildsRouter(g, pl) == g = NoRouter

\* lines 516-525, 676: _global_router = LLMRouter(prefer_local=pl)
Construct(pl) ==
    /\ routers_built < MaxRouters
    /\ prefer_local' = pl
    /\ api_key' \in BuildEnvs
    /\ stats' = [p \in Providers |-> ProviderStats]
    /\ last_successful_provider' = None
    /\ routers_built' = routers_built + 1
    /\ _global_router' = routers_built + 1

\* lines 672-677: a caller invokes get_llm_router(pl)
GetLlmRouter ==
    /\ pc = "idle"
    /\ op' = "get_llm_router"
    /\ pc' = "global_done"
    /\ \E pl \in BOOLEAN :
         IF BuildsRouter(_global_router, pl)
         THEN /\ Construct(pl)
              /\ got' = [instance |-> routers_built + 1, prefer_local |-> pl]
         ELSE /\ got' = [instance |-> _global_router, prefer_local |-> pl]
              /\ UNCHANGED <<prefer_local, api_key, routerVars,
                             _global_router, routers_built>>
    /\ UNCHANGED <<ollama_env, now, raw, frameVars, result, parsed, ncorr,
                   cbVars, agentVars, liveVars, diagVars, threadVars>>

\* lines 680-683: a caller invokes reset_llm_router(); the router that was
\* the global one is out of the module's reach
ResetLlmRouter ==
    /\ pc = "idle"
    /\ op' = "reset_llm_router"
    /\ pc' = "global_done"
    /\ _global_router' = NoRouter
    /\ got' = NotGot
    /\ prefer_local' = TRUE
    /\ api_key' = [p \in HttpProviders |-> FALSE]
    /\ stats' = [p \in Providers |-> ProviderStats]
    /\ last_successful_provider' = None
    /\ UNCHANGED <<ollama_env, now, raw, frameVars, result, parsed, ncorr,
                   cbVars, agentVars, liveVars, diagVars, threadVars, routers_built>>

\* get_llm_router or reset_llm_router has returned to its caller
ReturnGlobal ==
    /\ pc = "global_done"
    /\ pc' = "idle"
    /\ op' = "none"
    /\ got' = NotGot
    /\ UNCHANGED <<envVars, routerVars, now, raw, frameVars, result, parsed,
                   ncorr, cbVars, agentVars, liveVars, diagVars, threadVars,
                   _global_router, routers_built>>

\* lines 686-693: call_llama(prompt) is get_llm_router().call(prompt), up to
\* the first suspension of that Router.call
CallLlama ==
    /\ pc = "idle"
    /\ op' = "call"
    /\ IF BuildsRouter(_global_router, TRUE)
       THEN /\ Construct(TRUE)
            /\ timeout' = LLM_TIMEOUT
            /\ pc' = "loop"
            /\ phase' = "loop"
            /\ cur' = None
            /\ attempt' = 0
            /\ delay' = LLM_RETRY_DELAY
            /\ last_error' = NoError
            /\ seq_stats' = seq_stats
            /\ errors' = <<>>
            /\ idx' = 1
            /\ log' = <<Event("begin", None, "none", 0)>>
            /\ result' = NoResult
       ELSE /\ TotalSucceeded < MaxSuccesses
            /\ BeginCall(LLM_TIMEOUT)
            /\ UNCHANGED <<prefer_local, api_key, routerVars, _global_router,
                           routers_built>>
    /\ UNCHANGED <<ollama_env, now, raw, parsed, ncorr, cbVars, agentVars, liveVars,
                   diagVars, threadVars, got>>

NextGlobal ==
    \/ GetLlmRouter
    \/ ResetLlmRouter
    \/ ReturnGlobal
    \/ CallLlama
    \/ LoopStep
    \/ AttemptSuccess
    \/ AttemptFailure
    \/ Return

SpecGlobal == InitGlobal /\ [][NextGlobal]_vars

(* ------------------------------------------------------------------ *)
(* Two concurrent callers of Router.call on one router.  The router    *)
(* takes no lock; a step is what one caller does between two accesses  *)
(* to the router's fields.  Each caller makes one Router.call.  With    *)
(* synchronized, the callers hold one mutex around Router.call.         *)
(* ------------------------------------------------------------------ *)
\* what the concurrent callers leave alone
soloVars ==
    <<op, pc, raw, frameVars, result, parsed, ncorr, cbVars, agentVars, liveVars,
      diagVars, globalVars>>

\* the local provider after five failed attempts, the last at time 0
OpenedStats ==
    [total_calls |-> CIRCUIT_BREAKER_THRESHOLD,
     successful_calls |-> 0,
     failed_calls |-> CIRCUIT_BREAKER_THRESHOLD,
     circuit_breaker |-> [failure_count |-> CIRCUIT_BREAKER_THRESHOLD,
                          last_failure_time |-> 0,
                          is_open |-> TRUE]]

\* the local provider after one successful attempt
AnsweredStats ==
    [total_calls |-> 1, successful_calls |-> 1, failed_calls |-> 0,
     circuit_breaker |-> CircuitBreaker]

\* The states of the router in which the callers arrive: new; the local
\* provider's breaker open and its cooldown over; the local provider
\* sticky after a success.  Only the local provider is usable.
InitThreads ==
    /\ prefer_local = TRUE
    /\ api_key = [p \in HttpProviders |-> FALSE]
    /\ ollama_env = "ok"
    /\ \E v \in {"new", "half_open", "sticky"} :
         /\ stats = [p \in Providers |->
                       IF p # Ollama \/ v = "new" THEN ProviderStats
                       ELSE IF v = "half_open" THEN OpenedStats
                       ELSE AnsweredStats]
         /\ last_successful_provider = (IF v = "sticky" THEN Ollama ELSE None)
         /\ now = (IF v = "half_open" THEN CIRCUIT_BREAKER_TIMEOUT + 1 ELSE 0)
    /\ completed = [p \in Providers |-> stats[p].total_calls]
    /\ synchronized \in BOOLEAN
    /\ NoCallers
    /\ NoAgent
    /\ op = "none"
    /\ pc = "idle"
    /\ raw = <<>>
    /\ timeout = LLM_TIMEOUT
    /\ errors = <<>>
    /\ idx = 1
    /\ phase = "none"
    /\ cur = None
    /\ attempt = 0
    /\ delay = LLM_RETRY_DELAY
    /\ last_error = NoError
    /\ seq_stats = ProviderStats
    /\ result = NoResult
    /\ parsed = NoResult
    /\ log = <<>>
    /\ ncorr = 0
    /\ cb = CircuitBreaker
    /\ cb_op = "init"
    /\ cb_prev = CircuitBreaker
    /\ cb_streak = 0
    /\ cb_last_fail = NoTime
    /\ skipped = {}
    /\ limited = [p \in Providers |-> 0]
    /\ diag = NoDiag
    /\ _global_router = NoRouter
    /\ routers_built = 0
    /\ got = NotGot

\* caller t's Router.call goes on in the for loop after provider p's
\* call_with_retry raised e (lines 589-590, 611-616)
TCaught(t, e) ==
    /\ t_errors' = [t_errors EXCEPT
                      ![t] = Append(@, CaughtEntry(t_cur[t], t_phase[t], e))]
    /\ t_idx' = [t_idx EXCEPT ![t] = NextIndex(t_phase[t], @)]
    /\ t_pc' = [t_pc EXCEPT ![t] = "loop"]
    /\ t_phase' = [t_phase EXCEPT ![t] = "loop"]
    /\ t_cur' = [t_cur EXCEPT ![t] = None]
    /\ t_attempt' = [t_attempt EXCEPT ![t] = 0]
    /\ t_delay' = [t_delay EXCEPT ![t] = LLM_RETRY_DELAY]

\* lines 580-586: caller t enters Router.call (taking the mutex when the
\* callers are synchronized) and looks at the sticky provider
TBegin(t) ==
    /\ t_pc[t] = "idle"
    /\ synchronized => mutex = 0
    /\ mutex' = (IF synchronized THEN t ELSE mutex)
    /\ IF StickyEligible
       THEN /\ t_pc' = [t_pc EXCEPT ![t] = "gate"]
            /\ t_phase' = [t_phase EXCEPT ![t] = "sticky"]
            /\ t_cur' = [t_cur EXCEPT ![t] = last_successful_provider]
       ELSE /\ t_pc' = [t_pc EXCEPT ![t] = "loop"]
            /\ t_phase' = [t_phase EXCEPT ![t] = "loop"]
            /\ t_cur' = t_cur
    /\ UNCHANGED <<envVars, routerVars, now, soloVars, synchronized,
                   completed, raises, t_idx, t_attempt, t_delay, t_tmp,
                   t_exc, t_errors, t_result>>

\* lines 593-600, 618-628: one round of caller t's for loop, or its end
TLoop(t) ==
    /\ t_pc[t] = "loop"
    /\ IF t_idx[t] > Len(providers)
       THEN /\ t_result' = [t_result EXCEPT ![t] = "LLMError"]
            /\ t_pc' = [t_pc EXCEPT ![t] = "done"]
            /\ UNCHANGED <<t_idx, t_cur, t_errors>>
       ELSE LET p == providers[t_idx[t]]
            IN  IF SkipReason(p) # "none"
                THEN /\ t_errors' = [t_errors EXCEPT
                           ![t] = Append(@, Entry(p, SkipReason(p), NoError))]
                     /\ t_idx' = [t_idx EXCEPT ![t] = @ + 1]
                     /\ UNCHANGED <<t_pc, t_cur, t_result>>
                ELSE /\ t_pc' = [t_pc EXCEPT ![t] = "gate"]
                     /\ t_cur' = [t_cur EXCEPT ![t] = p]
                     /\ UNCHANGED <<t_idx, t_errors, t_result>>
    /\ UNCHANGED <<envVars, routerVars, now, soloVars, synchronized, mutex,
                   completed, raises, t_phase, t_attempt, t_delay, t_tmp,
                   t_exc>>

\* lines 141-152: caller t's call_with_retry evaluates can_attempt() and,
\* when permitted, invokes call(), which is then in flight
TGate(t) ==
    /\ t_pc[t] = "gate"
    /\ stats' = [stats EXCEPT
                   ![t_cur[t]].circuit_breaker = after_can_attempt(@, now)]
    /\ IF can_attempt(stats[t_cur[t]].circuit_breaker, now)
       THEN /\ t_pc' = [t_pc EXCEPT ![t] = "in_call"]
            /\ t_attempt' = [t_attempt EXCEPT ![t] = 0]
            /\ t_delay' = [t_delay EXCEPT ![t] = LLM_RETRY_DELAY]
            /\ UNCHANGED <<t_phase, t_idx, t_cur, t_errors>>
       ELSE TCaught(t, BreakerOpenError)
    /\ UNCHANGED <<envVars, last_successful_provider, now, soloVars,
                   synchronized, mutex, completed, raises, t_tmp, t_exc,
                   t_result>>

\* line 154: caller t's call() returns text
TCallReturns(t) ==
    /\ t_pc[t] = "in_call"
    /\ CanSucceed(t_cur[t])
    /\ t_exc' = [t_exc EXCEPT ![t] = NoError]
    /\ completed' = [completed EXCEPT ![t_cur[t]] = @ + 1]
    /\ t_pc' = [t_pc EXCEPT ![t] = "tc_read"]
    /\ UNCHANGED <<envVars, routerVars, now, soloVars, synchronized, mutex,
                   raises, t_phase, t_idx, t_cur, t_attempt, t_delay, t_tmp,
                   t_errors, t_result>>

\* lines 154, 165-166: caller t's call() raises
TCallRaises(t) ==
    /\ t_pc[t] = "in_call"
    /\ raises < MaxRaised
    /\ \E e \in CallErrors(t_cur[t]) :
         /\ t_exc' = [t_exc EXCEPT ![t] = e]
         /\ now' = now + Elapse(Duration(e), stats)
    /\ raises' = raises + 1
    /\ completed' = [completed EXCEPT ![t_cur[t]] = @ + 1]
    /\ t_pc' = [t_pc EXCEPT ![t] = "tc_read"]
    /\ UNCHANGED <<envVars, routerVars, soloVars, synchronized, mutex,
                   t_phase, t_idx, t_cur, t_attempt, t_delay, t_tmp,
                   t_errors, t_result>>

\* The accesses to the provider's stats after call() returned (lines
\* 158-163: total_calls += 1, successful_calls += 1, record_success) and
\* after it raised (lines 166-169: total_calls += 1, failed_calls += 1,
\* record_failure), one load or one store each.
SuccessPath ==
    <<"tc_read", "tc_write", "s_read", "s_write", "rs_count", "rs_open",
      "rs_time", "returned">>
FailurePath ==
    <<"tc_read", "tc_write", "f_read", "f_write", "rf_read", "rf_write",
      "rf_time", "rf_check", "rf_open", "raised">>
PathOf(e) == IF e = NoError THEN SuccessPath ELSE FailurePath
After(at, e) ==
    LET path == PathOf(e)
        i == CHOOSE k \in 1..Len(path) : path[k] = at
    IN  path[i + 1]
ReadSteps == {"tc_read", "s_read", "f_read", "rf_read", "rf_check"}
WriteSteps ==
    {"tc_write", "s_write", "f_write", "rs_count", "rs_open", "rs_time",
     "rf_write", "rf_time", "rf_open"}

\* mutant: the store adds two
IncrementedTwice(v) == v + 2

\* lines 158-159, 166-167, 52: the value x += 1 stores for the loaded v
Incremented(v) == v + 1

\* what the load at position at reads from the provider's stats st
Loaded(at, st) ==
    CASE at = "tc_read" -> st.total_calls
      [] at = "s_read" -> st.successful_calls
      [] at = "f_read" -> st.failed_calls
      [] at = "rf_read" -> st.circuit_breaker.failure_count
      [] at = "rf_check" ->
           IF st.circuit_breaker.failure_count >= CIRCUIT_BREAKER_THRESHOLD
           THEN 1 ELSE 0

\* the provider's stats after the store at position at, v being the value
\* the caller loaded last and t the time
Stored(at, st, v, t) ==
    CASE at = "tc_write" -> [st EXCEPT !.total_calls = Incremented(v)]
      [] at = "s_write" -> [st EXCEPT !.successful_calls = Incremented(v)]
      [] at = "f_write" -> [st EXCEPT !.failed_calls = Incremented(v)]
      [] at = "rs_count" -> [st EXCEPT !.circuit_breaker.failure_count = 0]
      [] at = "rs_open" -> [st EXCEPT !.circuit_breaker.is_open = FALSE]
      [] at = "rs_time" ->
           [st EXCEPT !.circuit_breaker.last_failure_time = NoTime]
      [] at = "rf_write" ->
           [st EXCEPT !.circuit_breaker.failure_count = Incremented(v)]
      [] at = "rf_time" -> [st EXCEPT !.circuit_breaker.last_failure_time = t]
      [] at = "rf_open" ->
           IF v = 1 THEN [st EXCEPT !.circuit_breaker.is_open = TRUE] ELSE st

\* caller t loads a field of its provider's stats
TRead(t) ==
    /\ t_pc[t] \in ReadSteps
    /\ t_tmp' = [t_tmp EXCEPT ![t] = Loaded(t_pc[t], stats[t_cur[t]])]
    /\ t_pc' = [t_pc EXCEPT ![t] = After(@, t_exc[t])]
    /\ UNCHANGED <<envVars, routerVars, now, soloVars, synchronized, mutex,
                   completed, raises, t_phase, t_idx, t_cur, t_attempt,
                   t_delay, t_exc, t_errors, t_result>>

\* caller t stores a field of its provider's stats
TWrite(t) ==
    /\ t_pc[t] \in WriteSteps
    /\ stats' = [stats EXCEPT
                   ![t_cur[t]] = Stored(t_pc[t], @, t_tmp[t], now)]
    /\ t_pc' = [t_pc EXCEPT ![t] = After(@, t_exc[t])]
    /\ UNCHANGED <<envVars, last_successful_provider, now, soloVars,
                   synchronized, mutex, completed, raises, t_phase, t_idx,
                   t_cur, t_attempt, t_delay, t_tmp, t_exc, t_errors,
                   t_result>>

\* lines 163 and 588 / 607-609: call_with_retry returns the text to caller
\* t's Router.call, which sets the sticky pointer in the loop and returns
TReturned(t) ==
    /\ t_pc[t] = "returned"
    /\ last_successful_provider' = NextSticky(t_cur[t], t_phase[t])
    /\ t_result' = [t_result EXCEPT ![t] = "text"]
    /\ t_pc' = [t_pc EXCEPT ![t] = "done"]
    /\ UNCHANGED <<envVars, stats, now, soloVars, synchronized, mutex,
                   completed, raises, t_phase, t_idx, t_cur, t_attempt,
                   t_delay, t_tmp, t_exc, t_errors>>

\* lines 171-184: after the failure is recorded, caller t's call_with_retry
\* raises or sleeps and invokes call() again
TRaised(t) ==
    /\ t_pc[t] = "raised"
    /\ IF EndsSequence(t_exc[t], t_attempt[t])
       THEN /\ TCaught(t, IF IsRateLimit(t_exc[t]) THEN RateLimitError
                          ELSE ExhaustedError(t_exc[t]))
            /\ now' = now
       ELSE /\ now' = now + Elapse(t_delay[t], stats)
            /\ t_delay' = [t_delay EXCEPT ![t] = NextDelay(@)]
            /\ t_attempt' = [t_attempt EXCEPT ![t] = @ + 1]
            /\ t_pc' = [t_pc EXCEPT ![t] = "in_call"]
            /\ UNCHANGED <<t_phase, t_idx, t_cur, t_errors>>
    /\ UNCHANGED <<envVars, routerVars, soloVars, synchronized, mutex,
                   completed, raises, t_tmp, t_exc, t_result>>

\* caller t has its result (and gives the mutex back)
TReturn(t) ==
    /\ t_pc[t] = "done"
    /\ t_pc' = [t_pc EXCEPT ![t] = "finished"]
    /\ mutex' = (IF synchronized THEN 0 ELSE mutex)
    /\ UNCHANGED <<envVars, routerVars, now, soloVars, synchronized,
                   completed, raises, t_phase, t_idx, t_cur, t_attempt,
                   t_delay, t_tmp, t_exc, t_errors, t_result>>

NextThreads ==
    \E t \in Threads :
        \/ TBegin(t)
        \/ TLoop(t)
        \/ TGate(t)
        \/ TCallReturns(t)
        \/ TCallRaises(t)
        \/ TRead(t)
        \/ TWrite(t)
        \/ TReturned(t)
        \/ TRaised(t)
        \/ TReturn(t)

SpecThreads == InitThreads /\ [][NextThreads]_vars

(* ------------------------------------------------------------------ *)
(* run_agent: the plan -> verify loop of graph/engine.py               *)
(* ------------------------------------------------------------------ *)
\* what plan() returns under "hypothesis": nothing, an empty text, a text
Hypotheses == {None, "", "h"}

\* Python's truth value of a hypothesis (nodes.py line 17)
Truthy(h) == h \notin {None, ""}

\* confidences in tenths: 0.0, 0.5, 0.6, 0.9
Confidences == {0, 5, 6, 9}

\* a "confidence" that is no number (null, a text); a key that is absent
NotANumber == -1
Absent == -2

\* the router takes no part in run_agent
InitAgent ==
    /\ Init
    /\ prefer_local = TRUE
    /\ ollama_env = "ok"
    /\ api_key = [p \in HttpProviders |-> FALSE]

\* what run_agent leaves alone
agentFrame ==
    <<envVars, routerVars, now, op, pc, raw, frameVars, result, parsed, ncorr,
      cbVars, liveVars, diagVars, globalVars, threadVars>>

\* cli.py lines 382-396 and engine.py lines 12-14: the caller builds an
\* AgentState, in quick mode with max_iterations = 1, and calls run_agent,
\* which collects the context
RunAgent ==
    /\ a_pc = "none"
    /\ \E k \in 1..MaxIterations : state' = AgentState(k)
    /\ a_pc' = "while"
    /\ rounds' = 0
    /\ fixed' = 0
    /\ UNCHANGED agentFrame

\* engine.py lines 16, 33: while not state.terminated ... return state
WhileTest ==
    /\ a_pc = "while"
    /\ a_pc' = IF state.terminated THEN "returned" ELSE "plan"
    /\ UNCHANGED <<state, rounds, fixed, agentFrame>>

\* nodes.py lines 16-24: planner_node.  plan() returns a dict, or something
\* without .get (the node raises)
PlannerNode ==
    /\ a_pc = "plan"
    /\ IF Truthy(state.hypothesis)
       THEN /\ a_pc' = "verify"
            /\ UNCHANGED state
       ELSE \/ \E h \in Hypotheses, c \in Confidences \cup {NotANumber} :
                 /\ state' = [state EXCEPT !.hypothesis = h,
                                           !.confidence = c,
                                           !.iteration = @ + 1]
                 /\ a_pc' = "verify"
            \/ /\ a_pc' = "raised"
               /\ UNCHANGED state
    /\ UNCHANGED <<rounds, fixed, agentFrame>>

\* nodes.py lines 28-34: verifier_node.  verify() returns a verdict with or
\* without a confidence, or raises
VerifierNode ==
    /\ a_pc = "verify"
    /\ \/ \E c \in Confidences \cup {NotANumber, Absent} :
            /\ state' = [state EXCEPT
                           !.confidence = IF c = Absent THEN @ ELSE c]
            /\ a_pc' = "decide"
       \/ /\ a_pc' = "raised"
          /\ UNCHANGED state
    /\ UNCHANGED <<rounds, fixed, agentFrame>>

\* engine.py line 28: state.iteration >= state.max_iterations
IterationsUsed(st) == st.iteration >= st.max_iterations

\* one more round has ended
NextRound == IF rounds < MaxRounds THEN rounds + 1 ELSE rounds

\* engine.py lines 24-31: the decision that ends a round (the comparison of
\* a confidence that is no number raises TypeError; fixer_node may raise)
Decision ==
    /\ a_pc = "decide"
    /\ IF state.confidence = NotANumber
       THEN /\ a_pc' = "raised"
            /\ UNCHANGED <<state, rounds, fixed>>
       ELSE IF state.confidence >= CONFIDENCE_THRESHOLD
       THEN \/ /\ state' = [state EXCEPT !.terminated = TRUE]
               /\ fixed' = fixed + 1
               /\ rounds' = NextRound
               /\ a_pc' = "while"
            \/ /\ a_pc' = "raised"
               /\ UNCHANGED <<state, rounds, fixed>>
       ELSE IF IterationsUsed(state)
       THEN /\ state' = [state EXCEPT !.terminated = TRUE]
            /\ rounds' = NextRound
            /\ a_pc' = "while"
            /\ UNCHANGED fixed
       ELSE /\ rounds' = NextRound
            /\ a_pc' = "while"
            /\ UNCHANGED <<state, fixed>>
    /\ UNCHANGED agentFrame

\* the caller has run_agent's state or its exception
AgentDone ==
    /\ a_pc \in {"returned", "raised"}
    /\ state' = AgentState(DEFAULT_MAX_ITERATIONS)
    /\ a_pc' = "none"
    /\ rounds' = 0
    /\ fixed' = 0
    /\ UNCHANGED agentFrame

NextAgent ==
    \/ RunAgent
    \/ WhileTest
    \/ PlannerNode
    \/ VerifierNode
    \/ Decision
    \/ AgentDone

\* plan(), verify() and suggest() return or raise (their LLM calls have
\* timeouts), and the loop goes on
SpecAgent ==
    /\ InitAgent
    /\ [][NextAgent]_vars
    /\ WF_vars(WhileTest)
    /\ WF_vars(PlannerNode)
    /\ WF_vars(VerifierNode)
    /\ WF_vars(Decision)

(* ------------------------------------------------------------------ *)
(* A CircuitBreaker on its own: its methods called in any order        *)
(* ------------------------------------------------------------------ *)
routerState ==
    <<envVars, routerVars, op, pc, raw, frameVars, result, parsed, ncorr,
      liveVars, diagVars, globalVars, threadVars, agentVars>>

CbRecordFailure ==
    /\ cb.failure_count < MaxFailureCount
    /\ cb' = record_failure(cb, now)
    /\ cb_op' = "record_failure"
    /\ cb_prev' = cb
    /\ cb_streak' = cb_streak + 1
    /\ cb_last_fail' = now
    /\ UNCHANGED <<routerState, now>>

CbRecordSuccess ==
    /\ cb' = record_success(cb)
    /\ cb_op' = "record_success"
    /\ cb_prev' = cb
    /\ cb_streak' = 0
    /\ UNCHANGED <<routerState, now, cb_last_fail>>

CbReset ==
    /\ cb' = reset(cb)
    /\ cb_op' = "reset"
    /\ cb_prev' = cb
    /\ cb_streak' = 0
    /\ UNCHANGED <<routerState, now, cb_last_fail>>

NextBreaker ==
    \/ CbRecordFailure
    \/ CbRecordSuccess
    \/ CbReset
    \/ Tick

SpecBreaker == Init /\ [][NextBreaker]_vars

(* ------------------------------------------------------------------ *)
(* Properties of the CircuitBreaker (under SpecBreaker)                *)
(* ------------------------------------------------------------------ *)
\* C1: a breaker with fewer than CIRCUIT_BREAKER_THRESHOLD consecutive
\* record_failure() calls since it was closed always lets an attempt
\* through; from the threshold-th consecutive failure on, can_attempt() is
\* false exactly as long as the time since the most recent record_failure()
\* does not exceed CIRCUIT_BREAKER_TIMEOUT, and true once it does.
C1_OpensAtThreshold ==
    /\ cb_streak < CIRCUIT_BREAKER_THRESHOLD => can_attempt(cb, now)
    /\ cb_streak >= CIRCUIT_BREAKER_THRESHOLD =>
         (can_attempt(cb, now) <=>
            now - cb_last_fail > CIRCUIT_BREAKER_TIMEOUT)

\* exactly threshold failures in a row, and the cooldown has just run out
C1_Witness ==
    /\ cb_streak = CIRCUIT_BREAKER_THRESHOLD
    /\ cb_op = "record_failure"
    /\ now - cb_last_fail = CIRCUIT_BREAKER_TIMEOUT + 1
    /\ can_attempt(cb, now)

\* C2: record_success() is a full reset whatever the breaker was before:
\* afterwards failure_count = 0, is_open is false, last_failure_time is
\* empty and can_attempt() is true.
C2_SuccessResets ==
    cb_op = "record_success" =>
        /\ cb.failure_count = 0
        /\ ~cb.is_open
        /\ cb.last_failure_time = NoTime
        /\ can_attempt(cb, now)

\* record_success() on a breaker that was open and inside its cooldown
C2_Witness ==
    /\ cb_op = "record_success"
    /\ cb_prev.is_open
    /\ cb_prev.failure_count > CIRCUIT_BREAKER_THRESHOLD
    /\ now - cb_prev.last_failure_time <= CIRCUIT_BREAKER_TIMEOUT
    /\ cb.failure_count = 0

\* C3: a newly constructed breaker is closed with failure_count = 0, and a
\* closed breaker lets an attempt through whatever its failure count and
\* last failure time.
C3_ClosedPermits ==
    /\ cb_op = "init" => cb.failure_count = 0 /\ ~cb.is_open
    /\ ~cb.is_open => can_attempt(cb, now)

\* closed, one failure short of the threshold, the last one just recorded
C3_Witness ==
    /\ ~cb.is_open
    /\ cb.failure_count = CIRCUIT_BREAKER_THRESHOLD - 1
    /\ cb.last_failure_time = now
    /\ can_attempt(cb, now)

(* ------------------------------------------------------------------ *)
(* Properties of Router.call (under Spec)                              *)
(* ------------------------------------------------------------------ *)
\* positions of the history that are events ev of provider p
EventsOf(ev, p) ==
    {i \in 1..Len(log) : log[i].ev = ev /\ log[i].provider = p}

\* the Router.call in progress started without a sticky provider
StartedWithoutSticky == Len(log) > 0 /\ log[1].provider = None

\* the Router.call in progress started with sticky provider p whose breaker
\* was open with its cooldown not elapsed
StartedStickyCooling(p) ==
    /\ Len(log) > 0
    /\ log[1].provider = p
    /\ log[1].phase = "open"
    /\ log[1].n <= CIRCUIT_BREAKER_TIMEOUT

\* C4: a Router.call that started with no sticky provider and returns text
\* returns the text of the provider at the loop's position, which is now
\* the sticky provider; every provider before it in list order has one
\* entry in errors, in list order: "Not available" exactly for those not
\* available, "Circuit breaker open" only for available ones whose breaker
\* is open, both without any call() invocation, and a failure report for
\* those that were invoked.
C4_FirstEligibleWins ==
    (pc = "done" /\ result.kind = "text" /\ StartedWithoutSticky) =>
        /\ idx \in 1..Len(providers)
        /\ result.from = providers[idx]
        /\ result.text \in Texts
        /\ last_successful_provider = providers[idx]
        /\ EventsOf("call", providers[idx]) # {}
        /\ Len(errors) = idx - 1
        /\ \A j \in 1..(idx - 1) :
             LET p == providers[j]
             IN  /\ errors[j].provider = p
                 /\ errors[j].reason = "Not available" <=> ~is_available(p)
                 /\ errors[j].reason = "Circuit breaker open" =>
                      stats[p].circuit_breaker.is_open
                 /\ errors[j].reason \in
                      {"Not available", "Circuit breaker open"}
                      <=> EventsOf("call", p) = {}

\* the first provider is unavailable, the second one's breaker is open, and
\* a later provider returns the text
C4_Witness ==
    /\ pc = "done"
    /\ op = "call"
    /\ result.kind = "text"
    /\ StartedWithoutSticky
    /\ idx >= 3
    /\ errors[1].reason = "Not available"
    /\ errors[2].reason = "Circuit breaker open"
    /\ last_successful_provider = providers[idx]

\* C5: in a Router.call that starts with a sticky provider P whose breaker
\* is open with its cooldown not elapsed, P gets no step-1 attempt (the
\* call's history holds no sticky-phase event and no step-1 error), the
\* ordered loop runs, and P gets at most one attempt sequence in the call.
C5_StickyOpenSkipped ==
    \A p \in Providers :
        StartedStickyCooling(p) =>
            /\ \A i \in 2..Len(log) : log[i].phase = "loop"
            /\ phase = "loop"
            /\ pc \in {"loop", "attempt", "done"}
            /\ Len(errors) <= Len(providers)
            /\ Cardinality(EventsOf("seq", p)) <= 1

\* such a call has run through the loop, where P was skipped again
C5_Witness ==
    /\ pc = "done"
    /\ \E p \in Providers :
         /\ StartedStickyCooling(p)
         /\ last_successful_provider = p
         /\ \E j \in 1..Len(errors) :
              errors[j].provider = p /\ errors[j].reason = "Circuit breaker open"

\* this step is a provider call() that fails with exception class c
CallRaises(c) ==
    /\ pc = "attempt"
    /\ stats'[cur].failed_calls = stats[cur].failed_calls + 1
    /\ last_error'.cls = c

\* position of provider p in the ordered list
IndexOf(p) == CHOOSE i \in 1..Len(providers) : providers[i] = p

\* C6 as stated: when a call() reports a rate limit, it is the only call()
\* of its attempt sequence, no backoff sleep follows, and Router.call goes
\* on with the provider after this one in list order.
C6_AsStated ==
    [][CallRaises("LLMRateLimitError") =>
          /\ attempt = 0
          /\ now' = now
          /\ pc' = "loop"
          /\ idx' = IndexOf(cur) + 1]_vars

\* C6 as the code has it: the call() that reports a rate limit is the last
\* one of its attempt sequence (the only one when it is the first attempt;
\* earlier attempts of the sequence that failed otherwise were retried): no
\* backoff sleep and no further attempt follows, the failure is recorded,
\* and Router.call does not end but goes on, after a sequence of the
\* ordered loop with the next provider in list order, after the sticky
\* provider's step-1 sequence with the first provider of the list.
C6_RateLimitEndsSequence ==
    [][CallRaises("LLMRateLimitError") =>
          /\ now' = now
          /\ log' = Append(log, Event("call", cur, phase, attempt))
          /\ pc' = "loop"
          /\ cur' = None
          /\ result' = NoResult
          /\ Len(errors') = Len(errors) + 1
          /\ errors'[Len(errors')].provider = cur
          /\ idx' = IF phase = "sticky" THEN 1 ELSE idx + 1]_vars

\* a rate limit on a retry: the sequence ended after two or more call()
\* invocations and the loop has moved on
C6_Witness ==
    /\ pc = "loop"
    /\ last_error.cls = "LLMRateLimitError"
    /\ Len(errors) > 0
    /\ errors[Len(errors)].reason = "Rate limited"
    /\ log[Len(log)].ev = "call"
    /\ log[Len(log)].n >= 1
    /\ idx = IndexOf(errors[Len(errors)].provider) + 1

\* every provider of the list has an entry in errs
NamesEveryProvider(errs) ==
    \A p \in Providers : \E j \in 1..Len(errs) : errs[j].provider = p

\* C7 as stated: when every provider of the list is unavailable, Router.call
\* ends with the aggregated LLMError, with an entry for every provider, and
\* no provider call() was invoked in it.
C7_AllUnavailable ==
    (pc = "done" /\ \A p \in Providers : ~is_available(p)) =>
        /\ result = AllFailed(errors)
        /\ NamesEveryProvider(result.errors)
        /\ \A i \in 1..Len(log) : log[i].ev # "call"

\* C8: Router.call ends either with the text of a provider or with the one
\* aggregated LLMError "All LLM providers failed", whose entries end with
\* one entry per provider of the list in list order (after at most one
\* entry of the sticky provider's step-1 failure); nothing else is raised.
C8_TextOrAggregatedError ==
    pc = "done" =>
        \/ /\ result.kind = "text"
           /\ result.from \in Providers
           /\ result.text \in Texts
        \/ /\ result.kind = "LLMError"
           /\ result.what = "All LLM providers failed"
           /\ result.from = None
           /\ result.errors = errors
           /\ LET n == Len(errors) - Len(providers)
              IN  /\ n \in {0, 1}
                  /\ n = 1 => errors[1].provider = log[1].provider
                  /\ \A j \in 1..Len(providers) :
                       errors[n + j].provider = providers[j]

\* the aggregated error after a timeout, a rate limit and skipped providers
C8_Witness ==
    /\ pc = "done"
    /\ result.kind = "LLMError"
    /\ \E i, j, k \in 1..Len(errors) :
         /\ errors[i].cause.cls = "LLMTimeoutError"
         /\ errors[j].reason = "Rate limited"
         /\ errors[k].reason = "Not available"

\* C17 as stated: a provider that is not available is not invoked and its
\* stats and breaker do not change, in any step of any Router.call.
C17_UnavailableUntouched ==
    [][\A p \in Providers : ~is_available(p) => stats'[p] = stats[p]]_vars

(* ------------------------------------------------------------------ *)
(* Properties of call_with_retry (under Spec)                          *)
(* ------------------------------------------------------------------ *)
\* the attempt sequence that ended last raised e: its report is the last
\* entry of errors, and no other sequence has begun since
LastSequenceRaised(what) ==
    /\ pc \in {"loop", "done"}
    /\ result.kind # "text"
    /\ Len(errors) > 0
    /\ errors[Len(errors)].reason = what

\* the provider of that sequence
LastProvider == errors[Len(errors)].provider

\* the call() invocations and the sleeps of the sequence in progress or
\* ended last: the events behind the last "seq" event
LastSeqAt ==
    CHOOSE i \in 1..Len(log) :
        /\ log[i].ev = "seq"
        /\ \A j \in (i + 1)..Len(log) : log[j].ev # "seq"
SeqEvents(ev) == {i \in (LastSeqAt + 1)..Len(log) : log[i].ev = ev}

\* C12 as stated: a sequence that exhausts its attempts raises the
\* provider's failed_calls and its breaker's failure count by exactly 1
\* each, and raises one LLMError naming the last underlying cause.
C12_ExhaustionCountsOnce ==
    LastSequenceRaised("failed after 4 attempts") =>
        /\ stats[LastProvider].failed_calls = seq_stats.failed_calls + 1
        /\ stats[LastProvider].circuit_breaker.failure_count =
             seq_stats.circuit_breaker.failure_count + 1
        /\ errors[Len(errors)].cause = last_error
        /\ last_error # NoError

\* the reports Router.call files for a sequence that made attempts
SequenceReports == {"failed after 4 attempts", "Rate limited", "Rate limited by"}

RECURSIVE Pow(_, _)
Pow(b, k) == IF k = 0 THEN 1 ELSE b * Pow(b, k - 1)

\* the waits in the history are well-placed and well-timed: a wait comes
\* right after a call() of the same provider that was not the last
\* permitted attempt, the wait after attempt k lasts
\* LLM_RETRY_DELAY * LLM_RETRY_MULTIPLIER^k, and attempt k + 1 comes next
WaitsWellFormed ==
    \A i \in 1..Len(log) :
        log[i].ev = "sleep" =>
            /\ i > 1
            /\ log[i - 1].ev = "call"
            /\ log[i - 1].provider = log[i].provider
            /\ log[i - 1].n < LLM_MAX_RETRIES
            /\ log[i].n = LLM_RETRY_DELAY * Pow(LLM_RETRY_MULTIPLIER, log[i - 1].n)
            /\ IF i = Len(log)
               THEN pc = "attempt" /\ attempt = log[i - 1].n + 1
               ELSE log[i + 1] =
                      Event("call", log[i].provider, log[i].phase, log[i - 1].n + 1)

\* an exhausted sequence has waited 1, 2 and 4 seconds
ExhaustedWaits ==
    LastSequenceRaised("failed after 4 attempts") =>
        /\ Cardinality(SeqEvents("sleep")) = LLM_MAX_RETRIES
        /\ {log[i].n : i \in SeqEvents("sleep")} = {1, 2, 4}

\* C14 as stated: the waits are well-placed and well-timed, an exhausted
\* sequence waits 1 + 2 + 4, and a wait follows every failed attempt but
\* the last permitted one, so that a sequence that raised ended with
\* attempt max_retries.
C14_AsStated ==
    /\ WaitsWellFormed
    /\ ExhaustedWaits
    /\ (\E r \in SequenceReports : LastSequenceRaised(r)) =>
         log[Len(log)] = Event("call", LastProvider, phase, LLM_MAX_RETRIES)

\* C14 as the code has it: the waits are well-placed and well-timed, an
\* exhausted sequence waits 1 + 2 + 4, no wait follows a success, and a
\* wait follows every failed attempt except the last permitted one and
\* except an attempt that reported a rate limit, which ends the sequence
\* without a wait.
C14_BackoffWaits ==
    /\ WaitsWellFormed
    /\ ExhaustedWaits
    /\ (pc = "done" /\ result.kind = "text") => log[Len(log)].ev = "call"
    /\ (pc = "attempt" /\ attempt > 0) =>
         /\ log[Len(log)] = Event("sleep", cur, phase, delay \div LLM_RETRY_MULTIPLIER)
         /\ ~IsRateLimit(last_error)
    /\ (\E r \in SequenceReports : LastSequenceRaised(r)) =>
         /\ log[Len(log)].ev = "call"
         /\ log[Len(log)].n = LLM_MAX_RETRIES \/ IsRateLimit(last_error)

\* a sequence has just been exhausted after waits of 1, 2 and 4 seconds
C14_Witness ==
    /\ LastSequenceRaised("failed after 4 attempts")
    /\ Cardinality(SeqEvents("sleep")) = 3
    /\ \E i, j, k \in SeqEvents("sleep") :
         i < j /\ j < k /\ log[i].n = 1 /\ log[j].n = 2 /\ log[k].n = 4

\* this step is a provider call() that raises
CallFails ==
    /\ pc = "attempt"
    /\ stats'[cur].failed_calls = stats[cur].failed_calls + 1

\* this step goes on to the next attempt of the same sequence
Retried ==
    /\ pc' = "attempt"
    /\ cur' = cur
    /\ attempt' = attempt + 1

\* C15 as stated: an error of call() whose class is not the rate limit's
\* (a timeout, a response error, a transport error, a malformed envelope)
\* is retried whenever attempts are left, whatever its message; an error of
\* the rate limit's class ends the sequence.
C15_OnlyRateLimitEndsEarly ==
    [][CallFails =>
         IF last_error'.cls = "LLMRateLimitError"
         THEN pc' = "loop"
         ELSE attempt < LLM_MAX_RETRIES => Retried]_vars

\* C16: a sequence begins only when the breaker's gate permits, and a failed
\* attempt that is no rate limit and not the last permitted one is followed
\* by the next attempt whatever the breaker has become by this failure.
C16_GateCheckedOnce ==
    [][/\ (pc # "attempt" /\ pc' = "attempt") =>
            /\ can_attempt(stats[cur'].circuit_breaker, now)
            /\ attempt' = 0
            /\ seq_stats' = stats[cur']
       /\ (CallFails /\ ~IsRateLimit(last_error') /\ attempt < LLM_MAX_RETRIES)
            => Retried]_vars

\* a sequence that began on a closed breaker is about to make another
\* attempt although its own failures have opened the breaker
C16_Witness ==
    /\ pc = "attempt"
    /\ attempt >= 1
    /\ ~seq_stats.circuit_breaker.is_open
    /\ stats[cur].circuit_breaker.is_open
    /\ ~can_attempt(stats[cur].circuit_breaker, now)

\* this step is an invocation of a provider's call()
CallInvoked ==
    /\ pc = "attempt"
    /\ stats'[cur].total_calls = stats[cur].total_calls + 1

\* the sequence in progress began on an open breaker whose cooldown had
\* elapsed
HalfOpenSequence == pc = "attempt" /\ seq_stats.circuit_breaker.is_open

\* C20 as stated: of a sequence that began on an open breaker whose
\* cooldown had elapsed, only the first call() reaches the provider; when
\* it succeeds the breaker is closed, when it fails the breaker is open
\* with its cooldown counted from this failure.
C20_SingleProbe ==
    [][(HalfOpenSequence /\ CallInvoked) =>
          /\ attempt = 0
          /\ IF stats'[cur].successful_calls = stats[cur].successful_calls + 1
             THEN stats'[cur].circuit_breaker = CircuitBreaker
             ELSE /\ stats'[cur].circuit_breaker.is_open
                  /\ ~can_attempt(stats'[cur].circuit_breaker, now')]_vars

(* ------------------------------------------------------------------ *)
(* Properties of the sticky path of Router.call (under Spec)           *)
(* ------------------------------------------------------------------ *)
\* the sticky provider's step-1 attempt sequence is running
StickyStep == pc = "attempt" /\ phase = "sticky"

\* call() events of provider p made from the ordered loop
LoopCalls(p) ==
    {i \in 1..Len(log) :
        log[i].ev = "call" /\ log[i].provider = p /\ log[i].phase = "loop"}

\* C21: while the sticky provider's step-1 sequence runs, the loop has not
\* run (no errors entry, every event of the call is the sticky provider's)
\* and no step changes another provider's stats; the step in which its
\* call() succeeds ends Router.call with that text, leaves the sticky
\* pointer as it was and adds nothing but that call() to the history.
C21_StickySuccessReturns ==
    [][StickyStep =>
          /\ cur = last_successful_provider
          /\ errors = <<>>
          /\ idx = 1
          /\ \A i \in 2..Len(log) :
               log[i].provider = cur /\ log[i].phase = "sticky"
          /\ \A q \in Providers \ {cur} : stats'[q] = stats[q]
          /\ result'.kind = "text" =>
               /\ pc' = "done"
               /\ result'.from = cur
               /\ result'.text \in Texts
               /\ last_successful_provider' = last_successful_provider
               /\ errors' = <<>>
               /\ log' = Append(log, Event("call", cur, "sticky", attempt))]_vars

\* the sticky provider has answered on a retry while another provider has
\* failures on record
C21_Witness ==
    /\ pc = "done"
    /\ op = "call"
    /\ phase = "sticky"
    /\ result.kind = "text"
    /\ result.from = last_successful_provider
    /\ log[Len(log)].n >= 1
    /\ \E q \in Providers \ {result.from} : stats[q].failed_calls > 0

\* the Router.call in progress made a step-1 attempt on the sticky
\* provider, which failed
StickyFailed ==
    /\ Len(log) >= 2
    /\ log[2].phase = "sticky"
    /\ phase = "loop"

\* C22: the failure of the sticky provider's step-1 sequence does not end
\* Router.call: its error becomes the first entry of errors and the
\* ordered loop starts at the first provider; such a call ends with the
\* text of the first provider of the list that is eligible and succeeds
\* (every provider before it has its entry, a skip exactly when it was not
\* invoked from the loop), and only the aggregated error carries the sticky
\* provider's failure.
C22_StickyFailureFallsThrough ==
    /\ [][(StickyStep /\ pc' # "attempt" /\ result'.kind # "text") =>
            /\ pc' = "loop"
            /\ idx' = 1
            /\ result' = NoResult
            /\ Len(errors') = 1
            /\ errors'[1].provider = cur]_vars
    /\ [](StickyFailed =>
            /\ Len(errors) >= 1
            /\ errors[1].provider = log[1].provider
            /\ errors[1].reason \in {"failed after 4 attempts", "Rate limited by"}
            /\ pc = "done" =>
                 \/ /\ result.kind = "text"
                    /\ result.errors = <<>>
                    /\ idx \in 1..Len(providers)
                    /\ result.from = providers[idx]
                    /\ LoopCalls(providers[idx]) # {}
                    /\ Len(errors) = idx
                    /\ \A j \in 1..(idx - 1) :
                         /\ errors[j + 1].provider = providers[j]
                         /\ errors[j + 1].reason \in
                              {"Not available", "Circuit breaker open"}
                              <=> LoopCalls(providers[j]) = {}
                 \/ /\ result = AllFailed(errors)
                    /\ Len(errors) = Len(providers) + 1)

\* after the sticky provider's step-1 failure a later provider of the list
\* has returned the text
C22_Witness ==
    /\ pc = "done"
    /\ op = "call"
    /\ StickyFailed
    /\ result.kind = "text"
    /\ idx >= 2
    /\ result.from # log[1].provider

\* the sticky provider was set and its breaker permitted an attempt when
\* the Router.call in progress began
BeganStickyEligible ==
    /\ log[1].provider # None
    /\ log[1].phase = "closed" \/ log[1].n > CIRCUIT_BREAKER_TIMEOUT

\* positions of the history where an attempt sequence begins
SeqStarts == {i \in 1..Len(log) : log[i].ev = "seq"}

\* the attempt sequence the event at position i belongs to
SeqOf(i) == CHOOSE k \in SeqStarts : k <= i /\ \A m \in SeqStarts : m <= i => m <= k

\* C23: in the history of one Router.call the first attempt sequence is
\* the sticky provider's exactly when the sticky provider was set and its
\* breaker permitted; the sequences of the ordered loop follow, on
\* providers of strictly increasing list position; every call() and every
\* sleep belongs to the sequence begun last, so a provider's attempts are
\* over before the next provider's begin; while a sequence runs its
\* provider's stats already count every call() the sequence has made; and
\* one provider at most is being called.
C23_DeterministicOrder ==
    pc \in {"loop", "attempt", "done"} =>
        /\ Len(log) >= 1
        /\ log[1].ev = "begin"
        /\ \A i \in 2..Len(log) : log[i].ev \in {"seq", "call", "sleep"}
        /\ BeganStickyEligible <=>
             (Len(log) >= 2 /\ log[2] = Event("seq", log[1].provider, "sticky", 0))
        /\ \A i \in SeqStarts : log[i].phase = "sticky" => i = 2
        /\ \A i, j \in SeqStarts :
             (i < j /\ log[i].phase = "loop") =>
                 /\ log[j].phase = "loop"
                 /\ IndexOf(log[i].provider) < IndexOf(log[j].provider)
        /\ \A i \in 2..Len(log) :
             log[i].ev \in {"call", "sleep"} =>
                 /\ SeqStarts # {}
                 /\ 2 <= i
                 /\ log[i].provider = log[SeqOf(i)].provider
                 /\ log[i].phase = log[SeqOf(i)].phase
        /\ pc = "attempt" =>
             /\ cur \in Providers
             /\ cur = log[LastSeqAt].provider
             /\ phase = log[LastSeqAt].phase
             /\ Cardinality(SeqEvents("call")) = attempt
             /\ stats[cur].total_calls = seq_stats.total_calls + attempt
             /\ stats[cur].failed_calls = seq_stats.failed_calls + attempt
        /\ pc # "attempt" => (cur = None \/ pc = "done")

\* a call that went from the sticky provider through two providers of the
\* loop, each with retries
C23_Witness ==
    /\ pc = "done"
    /\ op = "call"
    /\ BeganStickyEligible
    /\ Cardinality(SeqStarts) >= 3
    /\ \E i, j \in SeqStarts :
         /\ i < j
         /\ log[i].phase = "loop"
         /\ log[i].provider # log[j].provider
         /\ log[j].provider # log[1].provider
         /\ log[j - 1].ev = "call"
         /\ log[j - 1].n >= 1

(* ------------------------------------------------------------------ *)
(* Eligibility across Router.calls (under SpecLive)                    *)
(* ------------------------------------------------------------------ *)
\* the breaker's fields as they are now permit an attempt: closed, or open
\* with more than the cooldown since the last failure
PermitsNow(p) ==
    LET b == stats[p].circuit_breaker
    IN  \/ ~b.is_open
        \/ /\ b.last_failure_time # NoTime
           /\ now - b.last_failure_time > CIRCUIT_BREAKER_TIMEOUT

\* C24: whatever earlier calls skipped, each Router.call decides from the
\* state of the moment: step 1 attempts the sticky provider exactly when
\* its breaker permits now; the loop attempts the provider it has reached
\* exactly when that provider is available now and its breaker permits
\* now, and skips it otherwise; and a success of a provider reached in the
\* loop leaves its breaker closed with no failures and makes it sticky.
C24_LiveEligibility ==
    [][/\ (pc = "idle" /\ op' = "call") =>
            IF last_successful_provider # None
               /\ PermitsNow(last_successful_provider)
            THEN pc' = "attempt" /\ cur' = last_successful_provider
            ELSE pc' = "loop" /\ idx' = 1 /\ errors' = <<>>
       /\ (pc = "loop" /\ idx <= Len(providers)) =>
            LET p == providers[idx]
            IN  IF is_available(p) /\ PermitsNow(p)
                THEN /\ pc' = "attempt"
                     /\ cur' = p
                     /\ attempt' = 0
                     /\ errors' = errors
                ELSE /\ pc' = "loop"
                     /\ idx' = idx + 1
                     /\ Len(errors') = Len(errors) + 1
                     /\ errors'[Len(errors')].provider = p
                     /\ errors'[Len(errors')].reason \in SkipReasons
                     /\ log' = log
       /\ (pc = "attempt" /\ phase = "loop" /\ result'.kind = "text") =>
            /\ stats'[cur].circuit_breaker = CircuitBreaker
            /\ last_successful_provider' = cur
            /\ result'.from = cur]_vars

\* a provider that one earlier call skipped as unavailable and another as
\* breaker-open has now been reached by the loop, has answered, is sticky
\* and has its breaker closed
C24_Witness ==
    /\ pc = "done"
    /\ op = "call"
    /\ phase = "loop"
    /\ result.kind = "text"
    /\ <<result.from, "Not available">> \in skipped
    /\ <<result.from, "Circuit breaker open">> \in skipped
    /\ last_successful_provider = result.from
    /\ stats[result.from].circuit_breaker = CircuitBreaker
    /\ stats[result.from].failed_calls >= CIRCUIT_BREAKER_THRESHOLD

(* ------------------------------------------------------------------ *)
(* Properties of the diagnostic surface (under SpecDiag)               *)
(* ------------------------------------------------------------------ *)
DiagOps == {"get_available_providers", "get_provider_stats"}

\* C26: a call of get_available_providers or get_provider_stats returns
\* without any provider call() (it ends in the step it began in, the
\* history of provider calls stays empty) and leaves every provider's
\* counters and breaker fields, the sticky pointer and the clock as they
\* were, in whatever state the router is and however often it is called.
C26_DiagnosticsReadOnly ==
    [][op' \in DiagOps =>
          /\ pc = "idle"
          /\ pc' = "diag_done"
          /\ stats' = stats
          /\ last_successful_provider' = last_successful_provider
          /\ now' = now
          /\ log' = log
          /\ log = <<>>
          /\ cur' = None]_vars

\* get_provider_stats has reported on a router with a sticky provider, a
\* breaker that is open with its cooldown elapsed and a provider with
\* successes and failures
C26_Witness ==
    /\ pc = "diag_done"
    /\ op = "get_provider_stats"
    /\ last_successful_provider # None
    /\ \E i \in 1..Len(diag.report) :
         /\ diag.report[i].circuit_open
         /\ ~diag.report[i].available
    /\ \E i \in 1..Len(diag.report) :
         /\ diag.report[i].total_calls >= 2
         /\ diag.report[i].success_rate[1] >= 1
         /\ diag.report[i].success_rate[1] < diag.report[i].success_rate[2]

\* C27: what get_available_providers returns holds, in list order and
\* once each, exactly the providers that are available and whose breaker
\* is closed or more than the cooldown past its last failure.
C27_AvailableProviders ==
    (pc = "diag_done" /\ op = "get_available_providers") =>
        /\ \A i \in 1..Len(diag.names) : diag.names[i] \in Providers
        /\ \A i, j \in 1..Len(diag.names) :
             i < j => IndexOf(diag.names[i]) < IndexOf(diag.names[j])
        /\ \A p \in Providers :
             (\E i \in 1..Len(diag.names) : diag.names[i] = p)
             <=> (is_available(p) /\ PermitsNow(p))

\* a provider with a credential and a closed breaker is listed, and an
\* available one whose breaker is open within its cooldown is not
C27_Witness ==
    /\ pc = "diag_done"
    /\ op = "get_available_providers"
    /\ \E i \in 1..Len(diag.names) :
         /\ diag.names[i] \in HttpProviders
         /\ api_key[diag.names[i]]
         /\ ~stats[diag.names[i]].circuit_breaker.is_open
    /\ \E p \in Providers :
         /\ is_available(p)
         /\ stats[p].circuit_breaker.is_open
         /\ ~PermitsNow(p)
         /\ \A i \in 1..Len(diag.names) : diag.names[i] # p

(* ------------------------------------------------------------------ *)
(* Properties of the process-wide router (under SpecGlobal)            *)
(* ------------------------------------------------------------------ *)
\* C28: no router exists before the first get_llm_router (or call_llama);
\* a get_llm_router(pl) that finds a router returns that instance and
\* leaves it, its prefer_local, its stats, breakers and sticky pointer as
\* they are, whatever pl is; one that finds none builds the next instance
\* with prefer_local = pl, zero counters, closed breakers and no sticky
\* provider; and the global router changes only by being built when there
\* is none or by reset_llm_router clearing it.
C28_OneGlobalRouter ==
    /\ [][(pc = "idle" /\ op' = "get_llm_router") =>
            IF _global_router # NoRouter
            THEN /\ got'.instance = _global_router
                 /\ _global_router' = _global_router
                 /\ routers_built' = routers_built
                 /\ prefer_local' = prefer_local
                 /\ api_key' = api_key
                 /\ stats' = stats
                 /\ last_successful_provider' = last_successful_provider
            ELSE /\ got'.instance = routers_built + 1
                 /\ _global_router' = routers_built + 1
                 /\ routers_built' = routers_built + 1
                 /\ prefer_local' = got'.prefer_local
                 /\ stats' = [p \in Providers |-> ProviderStats]
                 /\ last_successful_provider' = None]_vars
    /\ [][_global_router' # _global_router =>
            \/ op' = "reset_llm_router" /\ _global_router' = NoRouter
            \/ /\ _global_router = NoRouter
               /\ _global_router' = routers_built + 1
               /\ op' \in {"get_llm_router", "call"}]_vars
    /\ [][(pc = "idle" /\ op' = "reset_llm_router") =>
            _global_router' = NoRouter]_vars
    /\ [](/\ routers_built = 0 => _global_router = NoRouter
          /\ _global_router # NoRouter => _global_router = routers_built)

\* after a reset, the second router has a sticky provider and failures on
\* record, and get_llm_router called with the other prefer_local has
\* returned it
C28_Witness ==
    /\ pc = "global_done"
    /\ op = "get_llm_router"
    /\ routers_built = 2
    /\ got.instance = 2
    /\ _global_router = 2
    /\ got.prefer_local # prefer_local
    /\ last_successful_provider # None
    /\ \E p \in Providers : stats[p].failed_calls > 0

(* ------------------------------------------------------------------ *)
(* Properties of concurrent callers (under SpecThreads)                *)
(* ------------------------------------------------------------------ *)
\* the callers whose call() to provider p is in flight
InFlight(p) == {t \in Threads : t_pc[t] = "in_call" /\ t_cur[t] = p}

\* C29: the step in which a caller's call_with_retry evaluates
\* can_attempt() changes no field of any breaker or counter, and lets the
\* caller's call() through exactly when the breaker's fields permit it
\* (closed, or open with the cooldown over), whatever calls any other
\* caller has in flight.
C29_GateCountsNoProbe ==
    [][\A t \in Threads :
          (t_pc[t] = "gate" /\ t_pc'[t] # "gate") =>
              /\ stats' = stats
              /\ t_pc'[t] = "in_call" <=> PermitsNow(t_cur[t])]_vars

\* both unsynchronized callers have their first call() to the same
\* provider in flight, its breaker open with the cooldown over
C29_Witness ==
    /\ ~synchronized
    /\ InFlight(Ollama) = Threads
    /\ \A t \in Threads : t_attempt[t] = 0
    /\ stats[Ollama].circuit_breaker.is_open
    /\ now - stats[Ollama].circuit_breaker.last_failure_time
         > CIRCUIT_BREAKER_TIMEOUT

\* the callers whose call() to p has ended and whose total_calls += 1 for
\* it is still to be stored
Updating(p) ==
    {t \in Threads : t_cur[t] = p /\ t_pc[t] \in {"tc_read", "tc_write"}}

\* C30: a provider's total_calls never exceeds the number of its call()
\* invocations that have ended; when the callers hold one mutex around
\* Router.call, one caller at most is inside Router.call and total_calls
\* equals that number, less the one attempt whose increment is under way.
C30_MutexKeepsCount ==
    /\ \A p \in Providers : stats[p].total_calls <= completed[p]
    /\ synchronized =>
         /\ Cardinality({t \in Threads : t_pc[t] \notin {"idle", "finished"}})
              <= 1
         /\ \A p \in Providers :
              stats[p].total_calls = completed[p] - Cardinality(Updating(p))

\* both unsynchronized callers are back from Router.call and the local
\* provider's total_calls is below the number of its attempts that ended
C30_Witness ==
    /\ ~synchronized
    /\ \A t \in Threads : t_pc[t] = "finished"
    /\ stats[Ollama].total_calls < completed[Ollama]

(* ------------------------------------------------------------------ *)
(* Attempt sequences per provider in one Router.call (under Spec)      *)
(* ------------------------------------------------------------------ *)
\* the attempt sequences provider p has received in the Router.call in
\* progress
SeqsOf(p) == {i \in SeqStarts : log[i].provider = p}

\* C31: in one Router.call a provider receives at most two attempt
\* sequences, of which at most one from the ordered loop; it has two only
\* when it was the sticky provider, its step-1 sequence failed (its report
\* is the first entry of errors), and the loop found it available with a
\* breaker that permits; a provider that was not sticky receives at most
\* one; and no provider gets more than 2 * (max_retries + 1) call()
\* invocations.
C31_AtMostTwoSequences ==
    /\ [](pc \in {"loop", "attempt", "done"} =>
            \A p \in Providers :
                /\ Cardinality(SeqsOf(p)) <= 2
                /\ Cardinality({i \in SeqsOf(p) : log[i].phase = "loop"}) <= 1
                /\ p # log[1].provider => Cardinality(SeqsOf(p)) <= 1
                /\ Cardinality(SeqsOf(p)) = 2 =>
                     /\ log[1].provider = p
                     /\ log[2] = Event("seq", p, "sticky", 0)
                     /\ Len(errors) >= 1
                     /\ errors[1].provider = p
                     /\ errors[1].reason \in
                          {"failed after 4 attempts", "Rate limited by"}
                /\ Cardinality(EventsOf("call", p)) <= 2 * (LLM_MAX_RETRIES + 1))
    /\ [][\A p \in Providers :
            (pc = "loop" /\ pc' = "attempt" /\ cur' = p) =>
                /\ is_available(p)
                /\ can_attempt(stats[p].circuit_breaker, now)
                /\ p = providers[idx]
                /\ Cardinality(SeqsOf(p)) =
                     (IF StickyFailed /\ log[1].provider = p THEN 1 ELSE 0)]_vars

\* the sticky provider exhausted its step-1 sequence and is being called
\* again from the loop
C31_Witness ==
    /\ pc = "attempt"
    /\ phase = "loop"
    /\ Cardinality(SeqsOf(cur)) = 2
    /\ Cardinality(EventsOf("call", cur)) > LLM_MAX_RETRIES + 1

(* ------------------------------------------------------------------ *)
(* What a Router.call leaves behind (under Spec)                       *)
(* ------------------------------------------------------------------ *)
\* C32: when Router.call returns text, the sticky pointer is set and is the
\* provider that produced the text, and that provider's breaker is as
\* constructed (closed, failure_count 0, no last failure time), also when
\* earlier attempts of the same sequence failed.
C32_TextLeavesStickyClosed ==
    (pc = "done" /\ result.kind = "text") =>
        /\ last_successful_provider # None
        /\ last_successful_provider = result.from
        /\ result.from \in Providers
        /\ stats[result.from].circuit_breaker = CircuitBreaker

\* the text came after three failed attempts of the same sequence, which
\* had brought the breaker's count to the threshold
C32_Witness ==
    /\ pc = "done"
    /\ result.kind = "text"
    /\ attempt = LLM_MAX_RETRIES
    /\ seq_stats.circuit_breaker.failure_count + attempt >=
         CIRCUIT_BREAKER_THRESHOLD

\* this step is an invocation of provider p's call(): the history gains
\* the event of that invocation
Invokes(p) ==
    /\ pc = "attempt"
    /\ cur = p
    /\ Len(log') > Len(log)
    /\ log'[Len(log) + 1] = Event("call", p, phase, attempt)

\* C34: for every provider total_calls = successful_calls + failed_calls,
\* so successful_calls <= total_calls and the success rate lies in [0, 1];
\* no counter ever decreases; and total_calls rises by exactly 1 in every
\* step that invokes the provider's call() and in no other step, where
\* exactly one of the other two counters rises by 1.
C34_CountersConsistent ==
    /\ [](\A p \in Providers :
            LET st == stats[p]
                rate == success_rate(st)
            IN  /\ st.total_calls = st.successful_calls + st.failed_calls
                /\ st.successful_calls <= st.total_calls
                /\ st.successful_calls >= 0 /\ st.failed_calls >= 0
                /\ rate[2] > 0
                /\ 0 <= rate[1] /\ rate[1] <= rate[2])
    /\ [][\A p \in Providers :
            /\ stats'[p].successful_calls >= stats[p].successful_calls
            /\ stats'[p].failed_calls >= stats[p].failed_calls
            /\ stats'[p].total_calls =
                 stats[p].total_calls + (IF Invokes(p) THEN 1 ELSE 0)
            /\ (stats'[p].successful_calls - stats[p].successful_calls)
                 + (stats'[p].failed_calls - stats[p].failed_calls) =
                 (IF Invokes(p) THEN 1 ELSE 0)]_vars

\* after several Router.calls a provider has successes and failures, and
\* another provider has been called too
C34_Witness ==
    /\ pc = "idle"
    /\ \E p, q \in Providers :
         /\ p # q
         /\ stats[p].successful_calls >= 1
         /\ stats[p].failed_calls >= 2
         /\ stats[q].total_calls >= 2

\* C35: the sticky pointer changes only in a step in which a provider's
\* call() returns text inside the ordered loop, and then to that provider;
\* it is never cleared; a Router.call that raises the aggregated error
\* ends with the pointer it began with, also when the sticky provider
\* itself failed or had its breaker opened; and so does a Router.call that
\* returns the text of the step-1 sticky attempt.
C35_StickyWrittenOnlyByLoop ==
    /\ [][/\ last_successful_provider' # last_successful_provider =>
               /\ pc = "attempt"
               /\ phase = "loop"
               /\ pc' = "done"
               /\ result'.kind = "text"
               /\ last_successful_provider' = cur
          /\ last_successful_provider # None =>
               last_successful_provider' # None]_vars
    /\ [](pc \in {"loop", "attempt", "done"} =>
            /\ (pc # "done" \/ result.kind # "text") =>
                 last_successful_provider = log[1].provider
            /\ (pc = "done" /\ result.kind = "text" /\ phase = "sticky") =>
                 /\ last_successful_provider = log[1].provider
                 /\ last_successful_provider = result.from)

\* a Router.call raised the aggregated error after the sticky provider's
\* own attempts had opened its breaker, and the pointer still names it
C35_Witness ==
    /\ pc = "done"
    /\ op = "call"
    /\ result = AllFailed(errors)
    /\ StickyFailed
    /\ last_successful_provider = log[1].provider
    /\ log[1].phase = "closed"
    /\ stats[last_successful_provider].circuit_breaker.is_open

(* ------------------------------------------------------------------ *)
(* Rate limits and the breaker (under SpecLimited)                     *)
(* ------------------------------------------------------------------ *)
\* this step is a call() invocation that call_with_retry classifies as a
\* rate limit: Router.call files the report of a rate-limited sequence
RateLimitedStep ==
    /\ pc = "attempt"
    /\ pc' = "loop"
    /\ Len(errors') = Len(errors) + 1
    /\ errors'[Len(errors')].provider = cur
    /\ errors'[Len(errors')].reason \in RateLimitReports

\* C36: the attempt that is classified as a rate limit has been counted as
\* a failure: in that step the provider's total_calls, failed_calls and
\* breaker failure count rise by 1 each, the failure's time is recorded and
\* the breaker opens if the count reaches the threshold; a provider that
\* CIRCUIT_BREAKER_THRESHOLD Router.calls have found rate-limited since its
\* last success has an open breaker when the last of them has returned.
C36_RateLimitCountsAsFailure ==
    /\ [][RateLimitedStep =>
            LET old == stats[cur]
                new == stats'[cur]
            IN  /\ new.total_calls = old.total_calls + 1
                /\ new.failed_calls = old.failed_calls + 1
                /\ new.successful_calls = old.successful_calls
                /\ new.circuit_breaker.failure_count =
                     old.circuit_breaker.failure_count + 1
                /\ new.circuit_breaker.last_failure_time = now'
                /\ new.circuit_breaker.is_open <=>
                     \/ old.circuit_breaker.is_open
                     \/ new.circuit_breaker.failure_count >=
                          CIRCUIT_BREAKER_THRESHOLD]_vars
    /\ [](pc = "idle" =>
            \A p \in Providers :
                /\ limited[p] <= stats[p].circuit_breaker.failure_count
                /\ limited[p] >= CIRCUIT_BREAKER_THRESHOLD =>
                     stats[p].circuit_breaker.is_open)

\* five Router.calls in a row found the provider rate-limited, one attempt
\* each, and the fifth opened its breaker
C36_Witness ==
    /\ pc = "idle"
    /\ \E p \in Providers :
         /\ limited[p] = CIRCUIT_BREAKER_THRESHOLD
         /\ stats[p].total_calls = CIRCUIT_BREAKER_THRESHOLD
         /\ stats[p].failed_calls = CIRCUIT_BREAKER_THRESHOLD
         /\ stats[p].circuit_breaker.failure_count = CIRCUIT_BREAKER_THRESHOLD
         /\ stats[p].circuit_breaker.is_open

(* ------------------------------------------------------------------ *)
(* Termination of Router.call (under SpecTerm)                         *)
(* ------------------------------------------------------------------ *)
\* the call() invocations of the Router.call in progress
CallsMade == {i \in 1..Len(log) : log[i].ev = "call"}

\* C37: a Router.call whose provider calls each return or raise ends, with
\* text or with the aggregated error, and makes at most
\* (number of providers + 1) * (max_retries + 1) call() invocations.
C37_RouterCallTerminates ==
    /\ [](pc \in {"loop", "attempt", "done"} =>
            Cardinality(CallsMade) <=
                (Len(providers) + 1) * (LLM_MAX_RETRIES + 1))
    /\ [](pc = "done" =>
            \/ result.kind = "text" /\ result.text \in Texts
            \/ result = AllFailed(errors))
    /\ (pc \in {"loop", "attempt"}) ~> (pc = "done")

\* the longest Router.call: the sticky provider and then every provider of
\* the list, the sticky one again, used up all their attempts
C37_Witness ==
    /\ pc = "done"
    /\ result = AllFailed(errors)
    /\ Cardinality(CallsMade) = (Len(providers) + 1) * (LLM_MAX_RETRIES + 1)

(* ------------------------------------------------------------------ *)
(* Termination of run_agent (under SpecAgent)                          *)
(* ------------------------------------------------------------------ *)
\* C38 as stated: whatever plan() and verify() return, run_agent's loop
\* sets terminated after at most max_iterations rounds.
C38_RunAgentTerminates ==
    /\ [](a_pc # "none" => rounds <= state.max_iterations)
    /\ (a_pc = "while" /\ ~state.terminated) ~>
           (state.terminated \/ a_pc = "raised")

(* ------------------------------------------------------------------ *)
(* The refusing gate of call_with_retry (under SpecThreads)            *)
(* ------------------------------------------------------------------ *)
\* caller t is at the gate of call_with_retry and the breaker refuses: it
\* is open and its cooldown has not elapsed.  (A caller on its own never
\* is: Router.call has just asked can_attempt() itself; here another
\* caller's failure came in between.)
Refused(t) ==
    /\ t_pc[t] = "gate"
    /\ ~can_attempt(stats[t_cur[t]].circuit_breaker, now)

\* C39: a call_with_retry entered while the breaker refuses raises the
\* LLMError "circuit breaker is open", which Router.call files, without a
\* call() invocation and without sleeping, and changes no counter and no
\* field of the breaker: the breaker still refuses and its cooldown still
\* runs from the same last failure.
C39_RefusalChangesNothing ==
    [][\A t \in Threads :
          (Refused(t) /\ t_pc'[t] # "gate") =>
              LET p == t_cur[t]
              IN  /\ stats' = stats
                  /\ completed' = completed
                  /\ raises' = raises
                  /\ now' = now
                  /\ t_pc'[t] = "loop"
                  /\ t_attempt'[t] = 0
                  /\ t_errors'[t] =
                       Append(t_errors[t],
                              Entry(p, "circuit breaker is open", NoError))
                  /\ ~can_attempt(stats'[p].circuit_breaker, now')]_vars

\* a caller was refused at the gate after Router.call had let it through:
\* the other caller's probe of the half-open breaker had failed meanwhile
C39_Witness ==
    \E t \in Threads :
        /\ t_pc[t] = "loop"
        /\ Len(t_errors[t]) >= 1
        /\ t_errors[t][Len(t_errors[t])] =
             Entry(Ollama, "circuit breaker is open", NoError)
        /\ stats[Ollama].circuit_breaker.is_open
        /\ stats[Ollama].circuit_breaker.last_failure_time = now
        /\ stats[Ollama].total_calls = completed[Ollama]

(* ------------------------------------------------------------------ *)
(* Properties of Router.safe_json_parse (under SpecRepair)             *)
(* ------------------------------------------------------------------ *)
\* C9: safe_json_parse makes a correction Router.call exactly when the
\* local strategies fail on raw, and never a second one; it then returns
\* what the local strategies make of the correction's text, and raises
\* LLMParseError when they fail on it or the correction call raised.
C9_OneCorrection ==
    /\ ncorr <= 1
    /\ op = "safe_json_parse" =>
         /\ ncorr = (IF ParseOf[raw].ok THEN 0 ELSE 1)
         /\ (pc = "sjp_done" /\ ncorr = 1) =>
              parsed = (IF result.kind = "text" /\ ParseOf[result.text].ok
                        THEN Outcome("json", "", ParseOf[result.text].value,
                                     None, <<>>)
                        ELSE Outcome("LLMParseError", "", <<>>, None, <<>>))

\* the correction call returned text that does not parse either
C9_Witness ==
    /\ pc = "sjp_done"
    /\ ncorr = 1
    /\ result.kind = "text"
    /\ ~ParseOf[result.text].ok
    /\ parsed.kind = "LLMParseError"

\* C10: a safe_json_parse whose raw text a local strategy parses returns
\* that result at once, without a Router.call: no provider is invoked and
\* the stats, the breakers and the sticky pointer stay as they were.
C10_LocalParseNoCall ==
    [][(pc = "idle" /\ op' = "safe_json_parse" /\ parse_json(raw').ok) =>
          /\ pc' = "sjp_done"
          /\ parsed' = Outcome("json", "", parse_json(raw').value, None, <<>>)
          /\ ncorr' = 0
          /\ stats' = stats
          /\ last_successful_provider' = last_successful_provider
          /\ log' = log
          /\ now' = now]_vars

\* the fenced-block strategy succeeded on a router with history: a sticky
\* provider is set and a breaker has recorded failures
C10_Witness ==
    /\ pc = "sjp_done"
    /\ ncorr = 0
    /\ ParseOf[raw].via = "content"
    /\ parsed.kind = "json"
    /\ last_successful_provider # None
    /\ \E p \in Providers : stats[p].circuit_breaker.failure_count > 0

\* C18: the sticky pointer is empty or an element of the ordered provider
\* list, and no step changes that list.
C18_StickyInList ==
    /\ [](\/ last_successful_provider = None
          \/ \E i \in 1..Len(providers) :
               providers[i] = last_successful_provider)
    /\ [][providers' = providers]_vars

\* a Router.call has raised the aggregated error on a router whose sticky
\* provider is set from an earlier call and has failures on its breaker
C18_Witness ==
    /\ pc = "done"
    /\ result.kind # "text"
    /\ last_successful_provider \in Providers
    /\ \E i \in 1..Len(providers) : providers[i] = last_successful_provider
    /\ stats[last_successful_provider].circuit_breaker.failure_count > 0

\* C25 as stated: a safe_json_parse that ends in LLMParseError has changed
\* nothing of the Router: no provider's call() was counted in it and the
\* sticky pointer is the one its Router.call began with.
C25_AsStated ==
    (pc = "sjp_done" /\ parsed.kind = "LLMParseError") =>
        /\ \A p \in Providers : EventsOf("call", p) = {}
        /\ Len(log) > 0 => last_successful_provider = log[1].provider

\* C25 as the code has it: the steps of safe_json_parse itself (its local
\* parse, and what it makes of the correction call's end, LLMParseError
\* included) change no provider's stats or breaker and not the sticky
\* pointer; an invocation that ends in LLMParseError has made its one
\* correction Router.call, which raised or returned text that does not
\* parse, and the Router's state has changed as that call changed it.
C25_ParseErrorAddsNothing ==
    /\ [][((pc = "idle" /\ op' = "safe_json_parse")
             \/ (pc = "done" /\ op = "safe_json_parse")) =>
            /\ stats' = stats
            /\ last_successful_provider' = last_successful_provider]_vars
    /\ []((pc = "sjp_done" /\ parsed.kind = "LLMParseError") =>
            /\ ~ParseOf[raw].ok
            /\ ncorr = 1
            /\ Len(log) > 0
            /\ result.kind # "none"
            /\ result.kind = "text" => ~ParseOf[result.text].ok)

\* LLMParseError after a correction call that a provider answered: its
\* success is counted and it has become the sticky provider
C25_Witness ==
    /\ pc = "sjp_done"
    /\ parsed.kind = "LLMParseError"
    /\ result.kind = "text"
    /\ last_successful_provider = result.from
    /\ last_successful_provider # log[1].provider
    /\ EventsOf("call", result.from) # {}
    /\ stats[result.from].successful_calls >= 1

(* ------------------------------------------------------------------ *)
(* Further properties of the CircuitBreaker (under SpecBreaker)        *)
(* ------------------------------------------------------------------ *)
\* C19: an open breaker has a failure count of at least the threshold.
C19_OpenImpliesThreshold ==
    cb.is_open => cb.failure_count >= CIRCUIT_BREAKER_THRESHOLD

\* the breaker has just opened at the threshold
C19_Witness ==
    /\ cb.is_open
    /\ ~cb_prev.is_open
    /\ cb_op = "record_failure"
    /\ cb.failure_count = CIRCUIT_BREAKER_THRESHOLD

\* C33: through record_failure, record_success and reset a failure count
\* at or above the threshold implies an open breaker, the last failure
\* time is unset exactly when the failure count is 0, and so an open
\* breaker always has the time from which its cooldown is measured, which
\* is the time of the last record_failure() call.
C33_ThresholdImpliesOpen ==
    /\ cb.failure_count >= CIRCUIT_BREAKER_THRESHOLD => cb.is_open
    /\ cb.last_failure_time = NoTime <=> cb.failure_count = 0
    /\ cb.is_open =>
         /\ cb.last_failure_time # NoTime
         /\ cb.last_failure_time = cb_last_fail
         /\ cb.last_failure_time <= now

\* an open breaker that took further failures after it opened, the last
\* one later than the one that opened it
C33_Witness ==
    /\ cb.is_open
    /\ cb_prev.is_open
    /\ cb_op = "record_failure"
    /\ cb.failure_count > CIRCUIT_BREAKER_THRESHOLD
    /\ cb.last_failure_time > cb_prev.last_failure_time

(* ------------------------------------------------------------------ *)
(* parse_json on its own: applied once to any short text               *)
(* ------------------------------------------------------------------ *)
\* every text of at most MaxLen tokens
ParseInputs == UNION {[1..n -> Tokens] : n \in 0..MaxLen}

InitParse ==
    /\ raw \in ParseInputs
    /\ prefer_local = TRUE
    /\ api_key = [p \in HttpProviders |-> FALSE]
    /\ ollama_env = "ok"
    /\ stats = [p \in Providers |-> ProviderStats]
    /\ last_successful_provider = None
    /\ now = 0
    /\ op = "none"
    /\ pc = "idle"
    /\ timeout = LLM_TIMEOUT
    /\ errors = <<>>
    /\ idx = 1
    /\ phase = "none"
    /\ cur = None
    /\ attempt = 0
    /\ delay = LLM_RETRY_DELAY
    /\ last_error = NoError
    /\ seq_stats = ProviderStats
    /\ result = NoResult
    /\ parsed = NoResult
    /\ log = <<>>
    /\ ncorr = 0
    /\ cb = CircuitBreaker
    /\ cb_op = "init"
    /\ cb_prev = CircuitBreaker
    /\ cb_streak = 0
    /\ cb_last_fail = NoTime
    /\ skipped = {}
    /\ limited = [p \in Providers |-> 0]
    /\ diag = NoDiag
    /\ _global_router = NoRouter
    /\ routers_built = 0
    /\ got = NotGot
    /\ synchronized = FALSE
    /\ completed = [p \in Providers |-> 0]
    /\ NoCallers
    /\ NoAgent

\* provider.parse_json(raw) returns or raises LLMParseError
ParseJson ==
    /\ pc = "idle"
    /\ op = "none"
    /\ op' = "parse_json"
    /\ pc' = "parsed"
    /\ parsed' = (IF parse_json(raw).ok THEN Parsed(parse_json(raw))
                  ELSE ParseError)
    /\ UNCHANGED <<envVars, routerVars, now, raw, frameVars, result, ncorr,
                   sideVars>>

NextParse == ParseJson

SpecParse == InitParse /\ [][NextParse]_vars

(* ------------------------------------------------------------------ *)
(* Properties of parse_json (under SpecParse)                          *)
(* ------------------------------------------------------------------ *)
\* offsets of the code fences of s, and of those tagged json
FencesOf(s) == {i \in 0..(Len(s) - 1) : s[i + 1] = "fence"}
TaggedFencesOf(s) ==
    {i \in FencesOf(s) : i + 2 <= Len(s) /\ s[i + 2] = "json"}
Least(S) == CHOOSE i \in S : \A j \in S : i <= j

\* the stripped content of the block that the fence at offset o opens, up
\* to the next fence; none when no fence closes it
BlockAt(s, o) ==
    LET b == IF o \in TaggedFencesOf(s) THEN o + 2 ELSE o + 1
        closers == {i \in FencesOf(s) : i >= b}
    IN  IF closers = {} THEN [some |-> FALSE, text |-> <<>>]
        ELSE [some |-> TRUE, text |-> Strip(Slice(s, b, Least(closers)))]

\* the first fenced block of s
FirstBlock(s) ==
    IF FencesOf(s) = {} THEN [some |-> FALSE, text |-> <<>>]
    ELSE BlockAt(s, Least(FencesOf(s)))

\* the block parse_json looks at: the one opened by the first fence tagged
\* json when there is one, else the first block
PreferredBlock(s) ==
    IF TaggedFencesOf(s) # {} THEN BlockAt(s, Least(TaggedFencesOf(s)))
    ELSE FirstBlock(s)

\* the text from the first "{" to the last "}" of s, when in this order
Braced(s) ==
    LET opens == {i \in 1..Len(s) : s[i] = "{"}
        closes == {i \in 1..Len(s) : s[i] = "}"}
    IN  IF opens = {} \/ closes = {} THEN [some |-> FALSE, text |-> <<>>]
        ELSE LET a == Least(opens)
                 z == CHOOSE i \in closes : \A j \in closes : i >= j
             IN  IF a < z THEN [some |-> TRUE, text |-> SubSeq(s, a, z)]
                 ELSE [some |-> FALSE, text |-> <<>>]

\* what the ordered strategies give on s when the second one parses block
Strategies(s, block) ==
    IF IsJsonValue(NoSpace(s))
    THEN Outcome("json", "", NoSpace(s), None, <<>>)
    ELSE IF block.some /\ IsJsonValue(NoSpace(block.text))
    THEN Outcome("json", "", NoSpace(block.text), None, <<>>)
    ELSE IF Braced(s).some /\ IsJsonValue(NoSpace(Braced(s).text))
    THEN Outcome("json", "", NoSpace(Braced(s).text), None, <<>>)
    ELSE Outcome("LLMParseError", "", <<>>, None, <<>>)

\* C11 as stated: parse_json returns what the first of direct parse, parse
\* of the content of the first fenced block, parse of the slice from the
\* first "{" to the last "}" gives, and raises LLMParseError only when all
\* three fail.
C11_FirstBlock ==
    pc = "parsed" => parsed = Strategies(raw, FirstBlock(raw))

\* C11 as the code has it: the same ordered strategies, where the fenced
\* block of the second strategy is the one opened by the first fence tagged
\* json when the text has one, and the first fenced block otherwise.
C11_OrderedStrategies ==
    pc = "parsed" => parsed = Strategies(raw, PreferredBlock(raw))

\* JSON in a tagged fenced block amid prose yields the embedded value
C11_Witness ==
    /\ pc = "parsed"
    /\ raw = <<"x", "fence", "json", "v", "fence">>
    /\ parsed = Outcome("json", "", <<"v">>, None, <<>>)

====
